---- MODULE Spec2Model ----
(***************************************************************************)
(* A model of nheko's Cache (src/src/Cache.cpp): the LMDB tables it keeps, *)
(* the in-memory session mirrors, and the operations on them.              *)
(*                                                                         *)
(* An LMDB table is a function from its keys to its values; a cursor scan  *)
(* visits the keys in the table's key order.  A std::map is a function     *)
(* too.  Every operation that runs inside one LMDB transaction is one      *)
(* action; the session operations, which take a mutex and a transaction    *)
(* one after the other, are split at those boundaries so that calls of     *)
(* different threads interleave.                                           *)
(***************************************************************************)
EXTENDS Integers, Sequences, FiniteSets, TLC

\* ------------------------------------------------------------------ bounds

\* Threads calling session operations at the same time.
NumThreads == 2
\* Distinct session ids among the inbound session indices.
NumSessionIds == 2
\* Greatest message index a caller passes.
MaxMessageIndex == 2

Threads == 1 .. NumThreads
\* The contents of a session object (what pickling preserves).
Sessions == {"s1", "s2"}
\* An empty unique_ptr.
Null == "null"
\* Room ids, in byte order.
RoomIds == <<"!a:x", "!b:x", "!c:x">>
\* Rooms that own an outbound session while threads interleave.
SessionRooms == {RoomIds[1]}
\* Rooms with a persisted outbound session when a process starts.
RestoreRooms == {RoomIds[1], RoomIds[2]}

RoomLess(a, b) ==
    \E i, j \in 1 .. Len(RoomIds) : RoomIds[i] = a /\ RoomIds[j] = b /\ i < j

\* ------------------------------------------------------------------ tables

EmptyTable == [k \in {} |-> TRUE]

Put(tbl, k, v) == [x \in (DOMAIN tbl) \cup {k} |-> IF x = k THEN v ELSE tbl[x]]

Del(tbl, k) == [x \in (DOMAIN tbl) \ {k} |-> tbl[x]]

\* Tables over a set of keys with values of a set.
Tables(keys, values) == UNION {[d -> values] : d \in SUBSET keys}

\* ------------------------------------------------------------- pickling

SECRET == "secret"

\* A pickle is the session's content encrypted under a key.
Pickle(session, key) == [key |-> key, body |-> session]

\* A blob that no key unpickles (truncated, or written by another version).
BadBlob == [key |-> "", body |-> "garbage"]

Blobs == {Pickle(s, SECRET) : s \in Sessions} \cup {BadBlob}

\* unpickle<T>(pickled, key): the session, or olm_exception.
Unpickle(blob, key) ==
    IF blob.key = key /\ blob.body \in Sessions
    THEN [ok |-> TRUE, session |-> blob.body]
    ELSE [ok |-> FALSE, session |-> Null]

\* ------------------------------------------------------ session indices

MegolmSessionIndex ==
    [room_id : {1}, session_id : 1 .. NumSessionIds, sender_key : {1}]

\* MegolmSessionIndex::to_hash: one key per index.
to_hash(index) == <<index.room_id, index.session_id, index.sender_key>>

InboundKeys == {to_hash(i) : i \in MegolmSessionIndex}

\* Byte order of two keys of equal shape.
KeyLess(a, b) ==
    \E i \in 1 .. Len(a) :
        /\ a[i] < b[i]
        /\ \A j \in 1 .. (i - 1) : a[j] = b[j]

\* The keys of a table in cursor (MDB_NEXT) order.
RECURSIVE InboundScanOrder(_)
InboundScanOrder(keys) ==
    IF keys = {} THEN << >>
    ELSE LET first == CHOOSE k \in keys : \A o \in keys \ {k} : KeyLess(k, o)
         IN  <<first>> \o InboundScanOrder(keys \ {first})

\* ------------------------------------------------- outbound session data

\* OutboundGroupSessionData, of which the cache reads and writes message_index.
OutboundGroupSessionData == [message_index : 0 .. MaxMessageIndex]

\* What std::map::operator[] inserts for a missing room.
DefaultData == [message_index |-> 0]

\* j["data"] = data; j["session"] = pickled; j.dump()
OutboundJson(data, pickled) ==
    [json |-> TRUE, has_data |-> TRUE, data |-> data,
     has_session |-> TRUE, session |-> pickled]

\* Stored values json::parse rejects, or that lack a member.
NotJson ==
    [json |-> FALSE, has_data |-> FALSE, data |-> DefaultData,
     has_session |-> FALSE, session |-> BadBlob]

JsonWithoutData(pickled) ==
    [json |-> TRUE, has_data |-> FALSE, data |-> DefaultData,
     has_session |-> TRUE, session |-> pickled]

JsonWithoutSession(data) ==
    [json |-> TRUE, has_data |-> TRUE, data |-> data,
     has_session |-> FALSE, session |-> BadBlob]

OutboundValues ==
    {OutboundJson(d, b) : d \in OutboundGroupSessionData, b \in Blobs}
    \cup {NotJson}
    \cup {JsonWithoutData(b) : b \in Blobs}
    \cup {JsonWithoutSession(d) : d \in OutboundGroupSessionData}

\* ------------------------------------------------------------------- state

VARIABLES
    \* LMDB tables of the session store.
    inboundMegolmSessionDb,
    outboundMegolmSessionDb,
    \* session_storage: the in-memory mirrors.
    group_inbound_sessions,
    group_outbound_session_data,
    group_outbound_sessions,
    \* Each thread's position inside a session operation, and its locals.
    thread,
    \* The process died of undefined behaviour.
    crashed,
    \* The last operation step taken, with what it returned.
    last,
    \* History: the session of the last completed saveInboundMegolmSession per
    \* key; the keys whose session this process run should hold, each "saved"
    \* (by a save completed in this run) or "restored" (saved by an earlier
    \* run, and restoreSessions has run since); the rooms whose outbound
    \* session was saved or restored in this run; whether the process is a
    \* restarted one, and whether restoreSessions has run in it.
    saved_inbound,
    known_inbound,
    known_outbound,
    boot,
    \* LMDB tables: read receipts per (event, room); per-room state events by
    \* type; RoomInfo per joined room; per-room timeline messages by timestamp.
    readReceiptsDb,
    statesDb,
    roomsDb,
    messagesDb,
    \* LMDB tables: per-room members by user id; RoomInfo per invited room, with
    \* the state and members of each invite; the sync state (next batch token);
    \* the pending receipts, keyed by (event, room).
    membersDb,
    invitesDb,
    inviteStatesDb,
    inviteMembersDb,
    syncStateDb,
    pendingReceiptsDb,
    \* The in-memory avatar urls, keyed by room and user.
    AvatarUrls,
    \* The holder of each session mirror mutex and of the writer lock of the
    \* environment; each thread's position in the statements of a call; the
    \* session object that each mirror owns.
    mutex,
    write_txn,
    call,
    owned,
    \* What the cache directory holds on disk, and whether the environment
    \* of the Cache object is open.
    cacheFiles,
    env_,
    \* The pickled Olm sessions of each peer, by session id.
    olmSessionsDb,
    \* The pending receipts signalled since they were last added.
    signalled

syncVars == <<membersDb, invitesDb, inviteStatesDb, inviteMembersDb, syncStateDb,
              pendingReceiptsDb, AvatarUrls>>

lockVars == <<mutex, write_txn, call, owned>>

storeVars == <<cacheFiles, env_>>

nonSessionVars ==
    <<readReceiptsDb, statesDb, roomsDb, messagesDb, syncVars, lockVars, storeVars,
      olmSessionsDb, signalled>>

sessionVars ==
    <<inboundMegolmSessionDb, outboundMegolmSessionDb, group_inbound_sessions,
      group_outbound_session_data, group_outbound_sessions, thread, crashed,
      saved_inbound, known_inbound, known_outbound, boot>>

NoKey == << >>
NoRoom == ""

Idle ==
    [pc |-> "idle", key |-> NoKey, room |-> NoRoom, session |-> Null,
     data |-> DefaultData, dangling |-> FALSE]

NoOp == [op |-> "none", t |-> 0, key |-> NoKey, room |-> NoRoom,
         ret |-> Null, found |-> FALSE, threw |-> FALSE]

Done(op, t) == [NoOp EXCEPT !.op = op, !.t = t]

AllIdle == \A t \in Threads : thread[t].pc = "idle"

SessionInit ==
    /\ inboundMegolmSessionDb = EmptyTable
    /\ outboundMegolmSessionDb = EmptyTable
    /\ group_inbound_sessions = EmptyTable
    /\ group_outbound_session_data = EmptyTable
    /\ group_outbound_sessions = EmptyTable
    /\ thread = [t \in Threads |-> Idle]
    /\ crashed = FALSE
    /\ saved_inbound = EmptyTable
    /\ known_inbound = EmptyTable
    /\ known_outbound = {}
    /\ boot = "fresh"

\* ------------------------------------------------ inbound group sessions

\* saveInboundMegolmSession, first half: pickle, put, commit.
saveInboundMegolmSession_put(t, index, session) ==
    /\ ~crashed
    /\ UNCHANGED nonSessionVars
    /\ thread[t].pc = "idle"
    /\ inboundMegolmSessionDb' =
           Put(inboundMegolmSessionDb, to_hash(index), Pickle(session, SECRET))
    /\ thread' = [thread EXCEPT ![t] =
           [Idle EXCEPT !.pc = "saveInbound_mirror", !.key = to_hash(index),
                        !.session = session]]
    /\ last' = [Done("saveInboundMegolmSession_put", t) EXCEPT !.key = to_hash(index)]
    /\ UNCHANGED <<outboundMegolmSessionDb, group_inbound_sessions,
                   group_outbound_session_data, group_outbound_sessions, crashed,
                   saved_inbound, known_inbound, known_outbound, boot>>

\* The mirror assignment of saveInboundMegolmSession, under group_inbound_mtx.
InboundMirrorStore(mirror, key, session) == Put(mirror, key, session)

\* saveInboundMegolmSession, second half: lock, mirror[key] = session, return.
saveInboundMegolmSession_mirror(t) ==
    /\ ~crashed
    /\ UNCHANGED nonSessionVars
    /\ thread[t].pc = "saveInbound_mirror"
    /\ group_inbound_sessions' =
           InboundMirrorStore(group_inbound_sessions, thread[t].key, thread[t].session)
    /\ thread' = [thread EXCEPT ![t] = Idle]
    /\ saved_inbound' = Put(saved_inbound, thread[t].key, thread[t].session)
    /\ known_inbound' = Put(known_inbound, thread[t].key, "saved")
    /\ last' = [Done("saveInboundMegolmSession", t) EXCEPT !.key = thread[t].key]
    /\ UNCHANGED <<inboundMegolmSessionDb, outboundMegolmSessionDb,
                   group_outbound_session_data, group_outbound_sessions, crashed,
                   known_outbound, boot>>

\* std::map::operator[]: a missing key is inserted with an empty pointer.
Subscript(mirror, key, default) ==
    IF key \in DOMAIN mirror THEN mirror ELSE Put(mirror, key, default)

\* getInboundMegolmSession: group_inbound_sessions[index.to_hash()].get()
getInboundMegolmSession(t, index) ==
    /\ ~crashed
    /\ UNCHANGED nonSessionVars
    /\ thread[t].pc = "idle"
    /\ group_inbound_sessions' = Subscript(group_inbound_sessions, to_hash(index), Null)
    /\ last' = [Done("getInboundMegolmSession", t) EXCEPT
                   !.key = to_hash(index),
                   !.ret = group_inbound_sessions'[to_hash(index)]]
    /\ UNCHANGED <<inboundMegolmSessionDb, outboundMegolmSessionDb,
                   group_outbound_session_data, group_outbound_sessions, thread,
                   crashed, saved_inbound, known_inbound, known_outbound, boot>>

\* inboundMegolmSessionExists: find(index.to_hash()) != end()
inboundMegolmSessionExists(t, index) ==
    /\ ~crashed
    /\ UNCHANGED nonSessionVars
    /\ thread[t].pc = "idle"
    /\ last' = [Done("inboundMegolmSessionExists", t) EXCEPT
                   !.key = to_hash(index),
                   !.found = (to_hash(index) \in DOMAIN group_inbound_sessions)]
    /\ UNCHANGED sessionVars

\* ----------------------------------------------- outbound group sessions

\* A check that looks at the data map only.
OutboundDataExists(room) == room \in DOMAIN group_outbound_session_data

\* outboundMegolmSessionExists: both maps hold the room.
OutboundExists(room) ==
    /\ room \in DOMAIN group_outbound_sessions
    /\ room \in DOMAIN group_outbound_session_data

outboundMegolmSessionExists(t, room) ==
    /\ ~crashed
    /\ UNCHANGED nonSessionVars
    /\ thread[t].pc = "idle"
    /\ last' = [Done("outboundMegolmSessionExists", t) EXCEPT
                   !.room = room, !.found = OutboundExists(room)]
    /\ UNCHANGED sessionVars

\* getOutboundMegolmSession: operator[] on both maps.
getOutboundMegolmSession(t, room) ==
    /\ ~crashed
    /\ UNCHANGED nonSessionVars
    /\ thread[t].pc = "idle"
    /\ group_outbound_sessions' = Subscript(group_outbound_sessions, room, Null)
    /\ group_outbound_session_data' =
           Subscript(group_outbound_session_data, room, DefaultData)
    /\ last' = [Done("getOutboundMegolmSession", t) EXCEPT
                   !.room = room, !.ret = group_outbound_sessions'[room]]
    /\ UNCHANGED <<inboundMegolmSessionDb, outboundMegolmSessionDb,
                   group_inbound_sessions, thread, crashed, saved_inbound,
                   known_inbound, known_outbound, boot>>

\* saveOutboundMegolmSession, first half: pickle, put, commit.
saveOutboundMegolmSession_put(t, room, data, session) ==
    /\ ~crashed
    /\ UNCHANGED nonSessionVars
    /\ thread[t].pc = "idle"
    /\ outboundMegolmSessionDb' =
           Put(outboundMegolmSessionDb, room, OutboundJson(data, Pickle(session, SECRET)))
    /\ thread' = [thread EXCEPT ![t] =
           [Idle EXCEPT !.pc = "saveOutbound_mirror", !.room = room,
                        !.data = data, !.session = session]]
    /\ known_outbound' = known_outbound \cup {room}
    /\ last' = [Done("saveOutboundMegolmSession_put", t) EXCEPT !.room = room]
    /\ UNCHANGED <<inboundMegolmSessionDb, group_inbound_sessions,
                   group_outbound_session_data, group_outbound_sessions, crashed,
                   saved_inbound, known_inbound, boot>>

\* Assigning the room's unique_ptr destroys the session it owned: a raw
\* pointer to it that another thread took under the lock now dangles.
Invalidate(threads, t, room) ==
    [u \in Threads |->
        IF u # t /\ threads[u].pc = "updateOutbound_put" /\ threads[u].room = room
        THEN [threads[u] EXCEPT !.dangling = TRUE]
        ELSE threads[u]]

\* saveOutboundMegolmSession, second half: lock, both maps, return.
saveOutboundMegolmSession_mirror(t) ==
    /\ ~crashed
    /\ UNCHANGED nonSessionVars
    /\ thread[t].pc = "saveOutbound_mirror"
    /\ group_outbound_session_data' =
           Put(group_outbound_session_data, thread[t].room, thread[t].data)
    /\ group_outbound_sessions' =
           Put(group_outbound_sessions, thread[t].room, thread[t].session)
    /\ thread' = [Invalidate(thread, t, thread[t].room) EXCEPT ![t] = Idle]
    /\ last' = [Done("saveOutboundMegolmSession", t) EXCEPT !.room = thread[t].room]
    /\ UNCHANGED <<inboundMegolmSessionDb, outboundMegolmSessionDb,
                   group_inbound_sessions, crashed, saved_inbound, known_inbound,
                   known_outbound, boot>>

\* updateOutboundMegolmSession: the early return, or on to the locked block.
updateOutboundMegolmSession_check(t, room, message_index) ==
    /\ ~crashed
    /\ UNCHANGED nonSessionVars
    /\ thread[t].pc = "idle"
    /\ thread' = [thread EXCEPT ![t] =
           IF OutboundExists(room)
           THEN [Idle EXCEPT !.pc = "updateOutbound_lock", !.room = room,
                             !.data = [message_index |-> message_index]]
           ELSE Idle]
    /\ last' = [Done("updateOutboundMegolmSession_check", t) EXCEPT
                   !.room = room, !.found = OutboundExists(room)]
    /\ UNCHANGED <<inboundMegolmSessionDb, outboundMegolmSessionDb,
                   group_inbound_sessions, group_outbound_session_data,
                   group_outbound_sessions, crashed, saved_inbound, known_inbound,
                   known_outbound, boot>>

\* data = mirror[room]; data.message_index = message_index; mirror[room] = data
BumpMessageIndex(data, message_index) == [data EXCEPT !.message_index = message_index]

\* updateOutboundMegolmSession: the block under group_outbound_mtx.
updateOutboundMegolmSession_lock(t) ==
    /\ ~crashed
    /\ UNCHANGED nonSessionVars
    /\ thread[t].pc = "updateOutbound_lock"
    /\ LET room == thread[t].room
           data == BumpMessageIndex(
                       Subscript(group_outbound_session_data, room, DefaultData)[room],
                       thread[t].data.message_index)
       IN  /\ group_outbound_session_data' = Put(group_outbound_session_data, room, data)
           /\ thread' = [thread EXCEPT ![t] =
                  [Idle EXCEPT !.pc = "updateOutbound_put", !.room = room,
                               !.data = data,
                               !.session = Subscript(group_outbound_sessions, room, Null)[room]]]
           /\ last' = [Done("updateOutboundMegolmSession_lock", t) EXCEPT !.room = room]
    /\ group_outbound_sessions' =
           Subscript(group_outbound_sessions, thread[t].room, Null)
    /\ UNCHANGED <<inboundMegolmSessionDb, outboundMegolmSessionDb,
                   group_inbound_sessions, crashed, saved_inbound, known_inbound,
                   known_outbound, boot>>

\* What pickle(session, SECRET) can produce from the raw pointer taken under
\* the lock: the pickle of a live session; anything, or a crash, when the
\* pointer is null or dangles.
PickleOutcomes(session, dangling) ==
    IF session = Null THEN {"crash", "garbage"}
    ELSE IF dangling THEN {"crash", "garbage", "pickle"}
    ELSE {"pickle"}

\* updateOutboundMegolmSession: pickle, put, commit, outside the lock.
updateOutboundMegolmSession_put(t) ==
    /\ ~crashed
    /\ UNCHANGED nonSessionVars
    /\ thread[t].pc = "updateOutbound_put"
    /\ \E outcome \in PickleOutcomes(thread[t].session, thread[t].dangling) :
          /\ crashed' = (outcome = "crash")
          /\ outboundMegolmSessionDb' =
                 IF outcome = "crash" THEN outboundMegolmSessionDb
                 ELSE Put(outboundMegolmSessionDb, thread[t].room,
                          OutboundJson(thread[t].data,
                                       IF outcome = "pickle"
                                       THEN Pickle(thread[t].session, SECRET)
                                       ELSE BadBlob))
    /\ thread' = [thread EXCEPT ![t] = Idle]
    /\ last' = [Done("updateOutboundMegolmSession", t) EXCEPT !.room = thread[t].room]
    /\ UNCHANGED <<inboundMegolmSessionDb, group_inbound_sessions,
                   group_outbound_session_data, group_outbound_sessions,
                   saved_inbound, known_inbound, known_outbound, boot>>

\* ---------------------------------------------------------------- restore

\* A restore that loads the first inbound entry only.
RestoreInboundFirstOnly(order, db, mirror) ==
    IF order = << >> THEN [mirror |-> mirror, threw |-> FALSE]
    ELSE LET key == Head(order)
             res == Unpickle(db[key], SECRET)
         IN  IF ~res.ok THEN [mirror |-> mirror, threw |-> TRUE]
             ELSE [mirror |-> Put(mirror, key, res.session), threw |-> FALSE]

\* The inbound loop of restoreSessions: no handler around unpickle, so the
\* first entry that fails to unpickle ends the scan with an exception.
RECURSIVE RestoreInbound(_, _, _)
RestoreInbound(order, db, mirror) ==
    IF order = << >> THEN [mirror |-> mirror, threw |-> FALSE]
    ELSE LET key == Head(order)
             res == Unpickle(db[key], SECRET)
         IN  IF ~res.ok THEN [mirror |-> mirror, threw |-> TRUE]
             ELSE RestoreInbound(Tail(order), db, Put(mirror, key, res.session))

\* The keys of the outbound table in cursor order.
RECURSIVE OutboundScanOrder(_)
OutboundScanOrder(keys) ==
    IF keys = {} THEN << >>
    ELSE LET first == CHOOSE k \in keys : \A o \in keys \ {k} : RoomLess(k, o)
         IN  <<first>> \o OutboundScanOrder(keys \ {first})

\* The outbound loop of restoreSessions: nlohmann::json::exception is caught
\* per entry (parse, at("data"), at("session")); unpickle's olm_exception is
\* not.  The data map is assigned before the session is unpickled.
RECURSIVE RestoreOutbound(_, _, _, _)
RestoreOutbound(order, db, data, sessions) ==
    IF order = << >> THEN [data |-> data, sessions |-> sessions, threw |-> FALSE]
    ELSE LET key == Head(order)
             obj == db[key]
             res == Unpickle(obj.session, SECRET)
         IN  IF ~obj.json \/ ~obj.has_data
             THEN RestoreOutbound(Tail(order), db, data, sessions)
             ELSE IF ~obj.has_session
             THEN RestoreOutbound(Tail(order), db, Put(data, key, obj.data), sessions)
             ELSE IF ~res.ok
             THEN [data |-> Put(data, key, obj.data), sessions |-> sessions,
                   threw |-> TRUE]
             ELSE RestoreOutbound(Tail(order), db, Put(data, key, obj.data),
                                  Put(sessions, key, res.session))

\* restoreSessions: one read-only transaction; the outbound loop runs only if
\* the inbound loop did not throw.
restoreSessions ==
    /\ ~crashed
    /\ UNCHANGED nonSessionVars
    /\ AllIdle
    /\ LET inb == RestoreInbound(InboundScanOrder(DOMAIN inboundMegolmSessionDb),
                                 inboundMegolmSessionDb, group_inbound_sessions)
           out == IF inb.threw
                  THEN [data |-> group_outbound_session_data,
                        sessions |-> group_outbound_sessions, threw |-> TRUE]
                  ELSE RestoreOutbound(OutboundScanOrder(DOMAIN outboundMegolmSessionDb),
                                       outboundMegolmSessionDb,
                                       group_outbound_session_data,
                                       group_outbound_sessions)
           loaded == IF inb.threw THEN {}
                     ELSE LET fresh == RestoreOutbound(
                                  OutboundScanOrder(DOMAIN outboundMegolmSessionDb),
                                  outboundMegolmSessionDb, EmptyTable, EmptyTable)
                          IN  (DOMAIN fresh.data) \cup (DOMAIN fresh.sessions)
       IN  /\ group_inbound_sessions' = inb.mirror
           /\ group_outbound_session_data' = out.data
           /\ group_outbound_sessions' = out.sessions
           /\ known_inbound' = [k \in DOMAIN saved_inbound |-> "restored"]
           /\ known_outbound' = known_outbound \cup loaded
           /\ last' = [Done("restoreSessions", 0) EXCEPT !.threw = out.threw]
    /\ boot' = IF boot = "restarted" THEN "restored" ELSE boot
    /\ UNCHANGED <<inboundMegolmSessionDb, outboundMegolmSessionDb, thread, crashed,
                   saved_inbound>>

\* The process ends and a new one starts: the tables stay, session_storage
\* starts empty.
Restart ==
    /\ crashed \/ AllIdle
    /\ UNCHANGED nonSessionVars
    /\ group_inbound_sessions' = EmptyTable
    /\ group_outbound_session_data' = EmptyTable
    /\ group_outbound_sessions' = EmptyTable
    /\ thread' = [t \in Threads |-> Idle]
    /\ crashed' = FALSE
    /\ known_inbound' = EmptyTable
    /\ known_outbound' = {}
    /\ boot' = "restarted"
    /\ last' = Done("Restart", 0)
    /\ UNCHANGED <<inboundMegolmSessionDb, outboundMegolmSessionDb, saved_inbound>>

\* The cache directory holds the files of an environment that this engine
\* wrote, and the Cache object has it open.
StoreInit ==
    /\ cacheFiles = "environment"
    /\ env_ = "open"

\* The session mirror mutexes, and the mirrors they guard.
Mutexes == {"group_inbound_mtx", "group_outbound_mtx"}
Mirrors ==
    {"group_inbound_sessions", "group_outbound_session_data", "group_outbound_sessions"}

\* No call in progress: every lock free, no session object in a mirror.
NoCall == [op |-> "none", at |-> 0, txn |-> "none", touching |-> "", handle |-> 0,
           handle_of |-> "", found |-> TRUE]

LockInit ==
    /\ mutex = [m \in Mutexes |-> 0]
    /\ write_txn = 0
    /\ call = [t \in Threads |-> NoCall]
    /\ owned = [m \in Mirrors |-> 0]

\* Everything outside the session store, as a new account's store holds it.
SyncInit ==
    /\ membersDb = EmptyTable
    /\ invitesDb = EmptyTable
    /\ inviteStatesDb = EmptyTable
    /\ inviteMembersDb = EmptyTable
    /\ syncStateDb = EmptyTable
    /\ pendingReceiptsDb = EmptyTable
    /\ AvatarUrls = EmptyTable
    /\ LockInit
    /\ olmSessionsDb = EmptyTable
    /\ signalled = {}
    /\ StoreInit

NonSessionInit ==
    /\ SyncInit
    /\ readReceiptsDb = EmptyTable
    /\ statesDb = EmptyTable
    /\ roomsDb = EmptyTable
    /\ messagesDb = EmptyTable

InboundStep(t) ==
    \/ \E index \in MegolmSessionIndex, session \in Sessions :
          saveInboundMegolmSession_put(t, index, session)
    \/ saveInboundMegolmSession_mirror(t)
    \/ \E index \in MegolmSessionIndex : getInboundMegolmSession(t, index)
    \/ \E index \in MegolmSessionIndex : inboundMegolmSessionExists(t, index)

vars == <<sessionVars, nonSessionVars, last>>

Init == SessionInit /\ NonSessionInit /\ last = NoOp

\* Inbound session operations called by concurrent threads.
InboundNext == (\E t \in Threads : InboundStep(t)) \/ restoreSessions \/ Restart

SpecInbound == Init /\ [][InboundNext]_vars

\* Inbound session operations called one after the other.
InboundSeqNext == InboundStep(1) \/ restoreSessions \/ Restart

SpecInboundSeq == Init /\ [][InboundSeqNext]_vars

OutboundStep(t) ==
    \/ \E room \in SessionRooms, data \in OutboundGroupSessionData, session \in Sessions :
          saveOutboundMegolmSession_put(t, room, data, session)
    \/ saveOutboundMegolmSession_mirror(t)
    \/ \E room \in SessionRooms, message_index \in 0 .. MaxMessageIndex :
          updateOutboundMegolmSession_check(t, room, message_index)
    \/ updateOutboundMegolmSession_lock(t)
    \/ updateOutboundMegolmSession_put(t)

OutboundLookup(t) ==
    \/ \E room \in SessionRooms : outboundMegolmSessionExists(t, room)
    \/ \E room \in SessionRooms : getOutboundMegolmSession(t, room)

\* Concurrent saveOutboundMegolmSession and updateOutboundMegolmSession calls.
OutboundCallsNext == \E t \in Threads : OutboundStep(t)

SpecOutboundCalls == Init /\ [][OutboundCallsNext]_vars

\* The same calls made one after the other.
OutboundCallsSeqNext == OutboundStep(1)

SpecOutboundCallsSeq == Init /\ [][OutboundCallsSeqNext]_vars

\* Every outbound session operation, one call after the other, across restarts.
OutboundSeqNext == OutboundStep(1) \/ OutboundLookup(1) \/ restoreSessions \/ Restart

SpecOutboundSeq == Init /\ [][OutboundSeqNext]_vars


\* A process starting on a store that an earlier run, another version of the
\* program or a damaged disk left behind: any persisted sessions, well-formed
\* or not, and empty mirrors.
RestoreInit ==
    /\ inboundMegolmSessionDb \in Tables(InboundKeys, Blobs)
    /\ outboundMegolmSessionDb \in Tables(RestoreRooms, OutboundValues)
    /\ group_inbound_sessions = EmptyTable
    /\ group_outbound_session_data = EmptyTable
    /\ group_outbound_sessions = EmptyTable
    /\ thread = [t \in Threads |-> Idle]
    /\ crashed = FALSE
    /\ saved_inbound = EmptyTable
    /\ known_inbound = EmptyTable
    /\ known_outbound = {}
    /\ boot = "restarted"
    /\ NonSessionInit
    /\ last = NoOp

RestoreNext ==
    \/ restoreSessions
    \/ \E index \in MegolmSessionIndex : inboundMegolmSessionExists(1, index)
    \/ \E room \in RestoreRooms : outboundMegolmSessionExists(1, room)

SpecRestore == RestoreInit /\ [][RestoreNext]_vars

\* A process starting on any persisted outbound sessions, then saves, updates,
\* restores and restarts, one call after the other, and the existence check.
OutboundExistsInit ==
    /\ inboundMegolmSessionDb = EmptyTable
    /\ outboundMegolmSessionDb \in Tables(RestoreRooms, OutboundValues)
    /\ group_inbound_sessions = EmptyTable
    /\ group_outbound_session_data = EmptyTable
    /\ group_outbound_sessions = EmptyTable
    /\ thread = [t \in Threads |-> Idle]
    /\ crashed = FALSE
    /\ saved_inbound = EmptyTable
    /\ known_inbound = EmptyTable
    /\ known_outbound = {}
    /\ boot = "restarted"
    /\ NonSessionInit
    /\ last = NoOp

OutboundExistsNext ==
    \/ OutboundStep(1)
    \/ restoreSessions
    \/ Restart
    \/ \E room \in RestoreRooms : outboundMegolmSessionExists(1, room)

SpecOutboundExists == OutboundExistsInit /\ [][OutboundExistsNext]_vars

\* ------------------------------------------------------------ read receipts

\* Greatest receipt timestamp of a sync payload.
MaxReceiptTs == 2

\* The local user and another one.
LocalUser == "@me:x"
Users == {LocalUser, "@u:x"}

\* Rooms whose receipts are synced, and the events of each.
ReceiptRooms == {RoomIds[1], RoomIds[2]}
EventIds(room) == IF room = RoomIds[1] THEN {"$1", "$2"} ELSE {"$3"}

\* json(ReadReceiptKey{event_id, room_id}).dump()
ReadReceiptKey(event_id, room_id) == [event_id |-> event_id, room_id |-> room_id]

\* The Receipts of one room of a sync payload: event id -> user id -> timestamp.
Receipts(room) == Tables(EventIds(room), Tables(Users, 1 .. MaxReceiptTs))

\* A merge that keeps only the new receipts.
EmplaceReplacing(saved_receipts, event_receipts) == event_receipts

\* A merge that erases the receipt of a user who already has one.
EmplaceOrErase(saved_receipts, event_receipts) ==
    [u \in ((DOMAIN saved_receipts) \cup (DOMAIN event_receipts))
               \ ((DOMAIN saved_receipts) \cap (DOMAIN event_receipts)) |->
        IF u \in DOMAIN saved_receipts THEN saved_receipts[u] ELSE event_receipts[u]]

\* std::map::emplace of each new receipt into the saved ones: a user who
\* already has a receipt keeps it.
Emplace(saved_receipts, event_receipts) ==
    [u \in (DOMAIN saved_receipts) \cup (DOMAIN event_receipts) |->
        IF u \in DOMAIN saved_receipts THEN saved_receipts[u] ELSE event_receipts[u]]

\* updateReadReceipt(txn, room_id, receipts): per event, the stored receipts
\* (if any) merged with the new ones and put back.
UpdateReadReceipt(db, room_id, receipts) ==
    LET keys == {ReadReceiptKey(e, room_id) : e \in DOMAIN receipts}
    IN  [key \in (DOMAIN db) \cup keys |->
            IF key \in keys
            THEN Emplace(IF key \in DOMAIN db THEN db[key] ELSE EmptyTable,
                         receipts[key.event_id])
            ELSE db[key]]

\* updateReadReceipt in a write transaction that commits.
updateReadReceipt(room_id, receipts) ==
    /\ readReceiptsDb' = UpdateReadReceipt(readReceiptsDb, room_id, receipts)
    /\ last' = [op |-> "updateReadReceipt", room |-> room_id]
    /\ UNCHANGED <<sessionVars, statesDb, roomsDb, messagesDb, syncVars, lockVars, storeVars,
                   olmSessionsDb, signalled>>

ReceiptsNext ==
    \E room \in ReceiptRooms :
        \E receipts \in Receipts(room) : updateReadReceipt(room, receipts)

SpecReceipts == Init /\ [][ReceiptsNext]_vars

\* ------------------------------------------------------------ power levels

\* std::numeric_limits<uint16_t>::max()
UINT16_MAX == 65535

\* Conversion of an int to uint16_t.
ToUint16(n) == n % (UINT16_MAX + 1)

\* Most event types in one hasEnoughPowerLevel call.
MaxEventTypes == 2

RoomPowerLevels == "m.room.power_levels"
EventTypes == {"m.room.name", "m.room.topic"}

\* Power levels a room's m.room.power_levels content holds: the content
\* stores JSON integers, so also levels below 0 and above UINT16_MAX.
Levels == {-1, 0, 50, 100, UINT16_MAX + 1}

\* The content of a stored m.room.power_levels event.
PowerLevels ==
    [users : Tables(Users, Levels), users_default : {0, 50},
     events : Tables(EventTypes, Levels), state_default : {50}]

\* PowerLevels::user_level: the user's entry, else users_default.
user_level(content, user_id) ==
    IF user_id \in DOMAIN content.users THEN content.users[user_id]
    ELSE content.users_default

\* PowerLevels::state_level: the event type's entry, else state_default.
state_level(content, event_type) ==
    IF event_type \in DOMAIN content.events THEN content.events[event_type]
    ELSE content.state_default

Min(a, b) == IF a < b THEN a ELSE b

\* The loop of hasEnoughPowerLevel over eventTypes.
RECURSIVE MinEventLevel(_, _, _)
MinEventLevel(content, eventTypes, min_event_level) ==
    IF eventTypes = << >> THEN min_event_level
    ELSE MinEventLevel(content, Tail(eventTypes),
                       Min(min_event_level,
                           ToUint16(state_level(content, Head(eventTypes)))))

\* The state table of a room: empty when the room has none.
StatesOf(states, room_id) ==
    IF room_id \in DOMAIN states THEN states[room_id] ELSE EmptyTable

\* hasEnoughPowerLevel's result: user_level >= min_event_level, both left at
\* their initial values when the room stores no m.room.power_levels event.
HasEnoughPowerLevel(states, eventTypes, room_id, user_id) ==
    LET db  == StatesOf(states, room_id)
        res == RoomPowerLevels \in DOMAIN db
        user == IF res THEN ToUint16(user_level(db[RoomPowerLevels], user_id)) ELSE 0
        min_event_level ==
            IF res THEN MinEventLevel(db[RoomPowerLevels], eventTypes, UINT16_MAX)
            ELSE UINT16_MAX
    IN  user >= min_event_level

hasEnoughPowerLevel(eventTypes, room_id, user_id) ==
    /\ last' = [op |-> "hasEnoughPowerLevel", eventTypes |-> eventTypes,
                room |-> room_id, user |-> user_id,
                ret |-> HasEnoughPowerLevel(statesDb, eventTypes, room_id, user_id)]
    /\ UNCHANGED <<sessionVars, nonSessionVars>>

\* Sequences of at most n elements of a set.
SeqUpTo(S, n) == UNION {[1 .. k -> S] : k \in 0 .. n}

\* A room that stores any m.room.power_levels event, or none.
PowerInit ==
    /\ SessionInit
    /\ SyncInit
    /\ readReceiptsDb = EmptyTable
    /\ roomsDb = EmptyTable
    /\ messagesDb = EmptyTable
    /\ statesDb \in {EmptyTable} \cup
           {[r \in {RoomIds[1]} |-> [ty \in {RoomPowerLevels} |-> content]] :
              content \in PowerLevels}
    /\ last = NoOp

PowerNext ==
    \E eventTypes \in SeqUpTo(EventTypes, MaxEventTypes), user \in Users :
        hasEnoughPowerLevel(eventTypes, RoomIds[1], user)

SpecPower == PowerInit /\ [][PowerNext]_vars

\* ---------------------------------------------------------------- timeline

MAX_RESTORED_MESSAGES == 30

\* Greatest timestamp and most events of a short timeline batch.
MaxBatchTs == 2
MaxBatchLen == 2
\* Messages a long timeline batch adds past 3 * MAX_RESTORED_MESSAGES.
ExtraMessages == 1

TimelineRooms == {RoomIds[1], RoomIds[2]}

\* std::to_string of a timestamp: its decimal digits.
RECURSIVE to_string(_)
to_string(n) == IF n < 10 THEN <<n>> ELSE Append(to_string(n \div 10), n % 10)

\* Byte order of two strings, which is the key order of a table.
StringLess(a, b) ==
    \/ \E i \in 1 .. Min(Len(a), Len(b)) :
          /\ a[i] < b[i]
          /\ \A j \in 1 .. (i - 1) : a[j] = b[j]
    \/ /\ Len(a) < Len(b)
       /\ \A j \in 1 .. Len(a) : a[j] = b[j]

\* The key order of a room's message table, fixed where getMessagesDb opens
\* the table: the byte order of the keys.
MessageKeyLess(a, b) == StringLess(a, b)

\* A timeline event: a message, a state event or a redaction.
TimelineEvent(type, event_id, ts) ==
    [type |-> type, event_id |-> event_id, origin_server_ts |-> ts]

isStateEvent(e) == e.type = "state"

isRedaction(e) == e.type = "redaction"

\* obj["event"] = serialize_event(e); obj["token"] = prev_batch; obj.dump()
TimelineEntry(e, prev_batch) == [event |-> e, token |-> prev_batch]

\* The loop of saveTimelineMessages: each event that is neither a state event
\* nor a redaction is put under to_string(event_timestamp(e)), in the order of
\* the batch, so a key holds the last event put under it.
SaveTimelineMessages(db, events, prev_batch) ==
    LET stored == {i \in 1 .. Len(events) :
                      ~(isStateEvent(events[i]) \/ isRedaction(events[i]))}
        key_of == [i \in stored |-> to_string(events[i].origin_server_ts)]
        put_keys == {key_of[i] : i \in stored}
        LastPut(key) == LET puts == {i \in stored : key_of[i] = key}
                        IN  CHOOSE i \in puts : \A j \in puts : j <= i
    IN  [key \in (DOMAIN db) \cup put_keys |->
            IF key \in put_keys
            THEN TimelineEntry(events[LastPut(key)], prev_batch)
            ELSE db[key]]

\* The message table of a room: empty when the room has none.
MessagesOf(messages, room_id) ==
    IF room_id \in DOMAIN messages THEN messages[room_id] ELSE EmptyTable

\* saveTimelineMessages in a write transaction that commits.
saveTimelineMessages(room_id, res) ==
    /\ messagesDb' =
           Put(messagesDb, room_id,
               SaveTimelineMessages(MessagesOf(messagesDb, room_id), res.events,
                                    res.prev_batch))
    /\ last' = [op |-> "saveTimelineMessages", room |-> room_id, events |-> res.events]
    /\ UNCHANGED <<sessionVars, readReceiptsDb, statesDb, roomsDb, syncVars, lockVars, storeVars,
                   olmSessionsDb, signalled>>

\* The value of idx when the cursor of deleteOldMessages visits key: one more
\* than the number of keys before it in key order.
CursorIndex(keys, key) == 1 + Cardinality({k \in keys : MessageKeyLess(k, key)})

\* A pruning that compares idx before incrementing it.
DeleteOldMessagesPostIncrement(db) ==
    IF Cardinality(DOMAIN db) <= 3 * MAX_RESTORED_MESSAGES THEN db
    ELSE LET kept == {key \in DOMAIN db :
                         ~(CursorIndex(DOMAIN db, key) - 1 > MAX_RESTORED_MESSAGES)}
         IN  [key \in kept |-> db[key]]

\* A pruning that keeps the entries last in key order.
DeleteOldMessagesKeepingLast(db) ==
    IF Cardinality(DOMAIN db) <= 3 * MAX_RESTORED_MESSAGES THEN db
    ELSE LET kept == {key \in DOMAIN db :
                         CursorIndex(DOMAIN db, key) >
                             Cardinality(DOMAIN db) - MAX_RESTORED_MESSAGES}
         IN  [key \in kept |-> db[key]]

\* deleteOldMessages on one room's table: untouched up to
\* 3 * MAX_RESTORED_MESSAGES entries; else every entry the cursor visits with
\* idx > MAX_RESTORED_MESSAGES is deleted.
DeleteOldMessages(db) ==
    IF Cardinality(DOMAIN db) <= 3 * MAX_RESTORED_MESSAGES THEN db
    ELSE LET kept == {key \in DOMAIN db :
                         ~(CursorIndex(DOMAIN db, key) > MAX_RESTORED_MESSAGES)}
         IN  [key \in kept |-> db[key]]

\* getRoomIds: the keys of the rooms table.
getRoomIds == DOMAIN roomsDb

\* deleteOldMessages: one write transaction over every room of getRoomIds.
deleteOldMessages ==
    /\ messagesDb' =
           [room \in (DOMAIN messagesDb) \cup getRoomIds |->
               IF room \in getRoomIds
               THEN DeleteOldMessages(MessagesOf(messagesDb, room))
               ELSE messagesDb[room]]
    /\ last' = [op |-> "deleteOldMessages",
                pruned |-> {room \in getRoomIds :
                               Cardinality(DOMAIN MessagesOf(messagesDb, room)) >
                                   3 * MAX_RESTORED_MESSAGES}]
    /\ UNCHANGED <<sessionVars, readReceiptsDb, statesDb, roomsDb, syncVars, lockVars, storeVars,
                   olmSessionsDb, signalled>>

\* Short batches: any events, timestamps not distinct.
BatchEvents ==
    {TimelineEvent(type, id, ts) :
        type \in {"message", "state", "redaction"}, id \in {"$1", "$2"},
        ts \in 1 .. MaxBatchTs}

ShortTimelines ==
    [events : SeqUpTo(BatchEvents, MaxBatchLen), prev_batch : {"p1"}]

TimelineSaveNext ==
    \E res \in ShortTimelines : saveTimelineMessages(RoomIds[1], res)

\* Sync payloads with short timelines for one room.
SpecTimelineSave == Init /\ [][TimelineSaveNext]_vars

\* Long batches: n messages of consecutive timestamps from first on.
MessageRun(first, n) ==
    [events |-> [i \in 1 .. n |-> TimelineEvent("message", "$m", first + i - 1)],
     prev_batch |-> "p1"]

HalfLimit == (3 * MAX_RESTORED_MESSAGES) \div 2

LongTimelines ==
    {MessageRun(1, HalfLimit),
     MessageRun(HalfLimit + 1, 3 * MAX_RESTORED_MESSAGES - HalfLimit),
     MessageRun(3 * MAX_RESTORED_MESSAGES + 1, ExtraMessages)}

\* saveState stores this RoomInfo for a joined room without state or members.
EmptyRoomInfo ==
    [name |-> <<"Empty Room">>, topic |-> << >>, avatar_url |-> << >>,
     is_invite |-> FALSE]

\* Any of the rooms joined, no message stored yet.
RetentionInit ==
    /\ SessionInit
    /\ SyncInit
    /\ readReceiptsDb = EmptyTable
    /\ statesDb = EmptyTable
    /\ roomsDb \in {[r \in joined |-> EmptyRoomInfo] : joined \in SUBSET TimelineRooms}
    /\ messagesDb = EmptyTable
    /\ last = NoOp

RetentionNext ==
    \/ \E room \in TimelineRooms, res \in LongTimelines : saveTimelineMessages(room, res)
    \/ deleteOldMessages

SpecRetention == RetentionInit /\ [][RetentionNext]_vars

\* ----------------------------------------------------------- timeline read

\* A stored value json::parse rejects.
UnparsableEntry == [garbage |-> TRUE]

\* json::parse(msg) throws.
ParseFails(obj) == "garbage" \in DOMAIN obj

\* obj.count("event") == 0 || obj.count("token") == 0
LacksEventOrToken(obj) == "event" \notin DOMAIN obj \/ "token" \notin DOMAIN obj

\* getTimelineMessages on one room's table.  The scan visits the keys in key
\* order while index < MAX_RESTORED_MESSAGES, and index counts the entries
\* pushed so far; a visited entry that does not parse throws out of the scan;
\* one without "event" or "token" is passed over; the events pushed are
\* reversed before the return, and prev_batch is the token of the last push.
GetTimelineMessages(db) ==
    LET keys == DOMAIN db
        Pushable(key) == ~ParseFails(db[key]) /\ ~LacksEventOrToken(db[key])
        pushable == {key \in keys : Pushable(key)}
        index_at == {<<key, Cardinality({k \in pushable : MessageKeyLess(k, key)})>> :
                        key \in keys}
        visited == {at[1] : at \in {a \in index_at : a[2] < MAX_RESTORED_MESSAGES}}
        pushed == {a \in index_at : a[2] < MAX_RESTORED_MESSAGES /\ Pushable(a[1])}
        n == Cardinality(pushed)
        Nth(i) == (CHOOSE a \in pushed : a[2] = i - 1)[1]
    IN  IF \E key \in visited : ParseFails(db[key])
        THEN [threw |-> TRUE, events |-> << >>, prev_batch |-> ""]
        ELSE [threw |-> FALSE,
              events |-> [i \in 1 .. n |-> db[Nth(n + 1 - i)].event],
              prev_batch |-> IF n = 0 THEN "" ELSE db[Nth(n)].token]

\* getTimelineMessages(txn, room_id) in a read transaction.
getTimelineMessages(room_id) ==
    /\ LET timeline == GetTimelineMessages(MessagesOf(messagesDb, room_id))
       IN  last' = [op |-> "getTimelineMessages", room |-> room_id,
                    threw |-> timeline.threw, events |-> timeline.events,
                    prev_batch |-> timeline.prev_batch]
    /\ UNCHANGED <<sessionVars, nonSessionVars>>

\* Timestamps of entries found in a table that no batch of LongTimelines
\* writes: one first and one late in key order.
StrayTimestamps == {0, 3 * MAX_RESTORED_MESSAGES + ExtraMessages + 1}

\* What a stray entry holds: nothing that parses, an object without "token",
\* an object without "event", or a whole entry.
StrayEntries(ts) ==
    {UnparsableEntry,
     [event |-> TimelineEvent("message", "$m", ts)],
     [token |-> "p0"],
     TimelineEntry(TimelineEvent("message", "$m", ts), "p0")}

\* Message tables a process may find in the cache directory.
StoredMessageTables ==
    UNION {{entries \in [present -> UNION {StrayEntries(ts) : ts \in present}] :
               \A ts \in present : entries[ts] \in StrayEntries(ts)}
           : present \in SUBSET StrayTimestamps}

TimelineReadInit ==
    /\ SessionInit
    /\ SyncInit
    /\ readReceiptsDb = EmptyTable
    /\ statesDb = EmptyTable
    /\ roomsDb = [r \in {RoomIds[1]} |-> EmptyRoomInfo]
    /\ \E stored \in StoredMessageTables :
          messagesDb = [r \in {RoomIds[1]} |->
                           [key \in {to_string(ts) : ts \in DOMAIN stored} |->
                               stored[CHOOSE ts \in DOMAIN stored : to_string(ts) = key]]]
    /\ last = NoOp

TimelineReadNext ==
    \/ \E res \in LongTimelines : saveTimelineMessages(RoomIds[1], res)
    \/ getTimelineMessages(RoomIds[1])

SpecTimelineRead == TimelineReadInit /\ [][TimelineReadNext]_vars

\* --------------------------------------------------------------- room name

\* A QString is a sequence of pieces; a piece is plain text or one of the
\* place markers of QString::arg, listed by number.
PlaceMarkers == <<"%1", "%2">>

Pieces(str) == {str[i] : i \in 1 .. Len(str)}

RECURSIVE Replace(_, _, _)
Replace(str, marker, a) ==
    IF str = << >> THEN << >>
    ELSE (IF Head(str) = marker THEN a ELSE <<Head(str)>>)
             \o Replace(Tail(str), marker, a)

\* QString::arg(a): every occurrence of the lowest numbered place marker of
\* the string is replaced by a; a string without place marker is unchanged.
Arg(str, a) ==
    LET numbers == {i \in 1 .. Len(PlaceMarkers) : PlaceMarkers[i] \in Pieces(str)}
    IN  IF numbers = {} THEN str
        ELSE LET lowest == CHOOSE i \in numbers : \A j \in numbers : i <= j
             IN  Replace(str, PlaceMarkers[lowest], a)

\* The decimal text of a number, one piece per digit.
Decimal == <<"0", "1", "2", "3", "4", "5", "6", "7", "8", "9">>

RECURSIVE Number(_)
Number(n) ==
    IF n < 10 THEN <<Decimal[n + 1]>> ELSE Number(n \div 10) \o <<Decimal[(n % 10) + 1]>>

\* User ids in the key order of a members table.
MemberIds == <<"@a:x", "@me:x", "@u:x", "@z:x">>

UserLess(a, b) ==
    \E i, j \in 1 .. Len(MemberIds) : i < j /\ MemberIds[i] = a /\ MemberIds[j] = b

\* json(MemberInfo{name, avatar_url})
MemberInfo(name, avatar_url) == [name |-> name, avatar_url |-> avatar_url]

RoomName == "m.room.name"
RoomCanonicalAlias == "m.room.canonical_alias"

\* The members table of a room: empty when the room has none.
MembersOf(members, room_id) ==
    IF room_id \in DOMAIN members THEN members[room_id] ELSE EmptyTable

\* getRoomName(txn, statesdb, membersdb).
GetRoomName(statesdb, membersdb) ==
    LET HasText(type, field) ==
            /\ type \in DOMAIN statesdb
            /\ ~ParseFails(statesdb[type])
            /\ statesdb[type][field] # << >>
        total == Cardinality(DOMAIN membersdb)
        \* The scan stops after 3 entries; the ones that parse are emplaced.
        scanned == {u \in DOMAIN membersdb :
                       Cardinality({v \in DOMAIN membersdb : UserLess(v, u)}) < 3}
        members == {u \in scanned : ~ParseFails(membersdb[u])}
        First(users) == CHOOSE u \in users : \A v \in users \ {u} : UserLess(u, v)
        others == members \ {LocalUser}
        first_member == IF others # {} THEN membersdb[First(others)].name
                        ELSE <<LocalUser>>
    IN  IF HasText(RoomName, "name") THEN statesdb[RoomName].name
        ELSE IF HasText(RoomCanonicalAlias, "alias") THEN statesdb[RoomCanonicalAlias].alias
        ELSE IF total = 1 /\ members # {} THEN membersdb[First(members)].name
        ELSE IF total = 2 THEN first_member
        ELSE IF total > 2
             THEN Arg(Arg(<<"%1", " and ", "%2", " others">>, first_member),
                      Number(total))
        ELSE <<"Empty Room">>

\* getRoomName on the tables of a room, in a read transaction.
getRoomName(room_id) ==
    /\ last' = [op |-> "getRoomName", room |-> room_id,
                ret |-> GetRoomName(StatesOf(statesDb, room_id),
                                    MembersOf(membersDb, room_id))]
    /\ UNCHANGED <<sessionVars, nonSessionVars>>

\* Display names of members, and names and aliases of rooms ("" is << >>).
DisplayNames == {<<"Ann">>, <<"%1">>}
RoomNames == {<< >>, <<"Crew">>}
RoomAliases == {<< >>, <<"#crew:x">>}

\* State tables holding any name and alias event, or none.
NameStates ==
    {[ty \in {RoomName} |-> [name |-> n]] : n \in RoomNames}
    \cup {[ty \in {RoomCanonicalAlias} |-> [alias |-> a]] : a \in RoomAliases}
    \cup {[ty \in {RoomName, RoomCanonicalAlias} |->
              IF ty = RoomName THEN [name |-> n] ELSE [alias |-> a]] :
              n \in RoomNames, a \in RoomAliases}
    \cup {EmptyTable}

\* Members tables over MemberIds.
MemberTables ==
    UNION {[present -> {MemberInfo(name, << >>) : name \in DisplayNames}] :
              present \in SUBSET Pieces(MemberIds)}

RoomNameInit ==
    /\ SessionInit
    /\ readReceiptsDb = EmptyTable
    /\ roomsDb = EmptyTable
    /\ messagesDb = EmptyTable
    /\ invitesDb = EmptyTable
    /\ inviteStatesDb = EmptyTable
    /\ inviteMembersDb = EmptyTable
    /\ syncStateDb = EmptyTable
    /\ pendingReceiptsDb = EmptyTable
    /\ AvatarUrls = EmptyTable
    /\ LockInit
    /\ olmSessionsDb = EmptyTable
    /\ signalled = {}
    /\ StoreInit
    /\ statesDb \in {[r \in {RoomIds[1]} |-> states] : states \in NameStates}
    /\ membersDb \in {[r \in {RoomIds[1]} |-> members] : members \in MemberTables}
    /\ last = NoOp

RoomNameNext == getRoomName(RoomIds[1])

SpecRoomName == RoomNameInit /\ [][RoomNameNext]_vars

\* -------------------------------------------------------- pending receipts

\* The keys of the pending table are json(ReadReceiptKey).dump(); the value
\* put under each is the empty string.
NoValue == ""

\* pendingReceiptsEvents(txn, room_id): the event ids of the keys of the room.
PendingReceiptsEvents(db, room_id) ==
    {key.event_id : key \in {k \in DOMAIN db : k.room_id = room_id}}

\* A removal that leaves the key in the table.
RemovePendingReceiptKeepingKey(db, room_id, event_id) == db

\* removePendingReceipt(txn, room_id, event_id)
RemovePendingReceipt(db, room_id, event_id) ==
    Del(db, ReadReceiptKey(event_id, room_id))

\* readReceipts(event_id, room_id): the multimap of (timestamp, user id) of the
\* stored receipts, empty when nothing is stored.
ReadReceipts(db, event_id, room_id) ==
    LET key == ReadReceiptKey(event_id, room_id)
    IN  IF key \in DOMAIN db THEN {<<db[key][u], u>> : u \in DOMAIN db[key]} ELSE {}

\* A filter that only skips the events without receipt.
FilterReadEventsAnyReceipt(db, room_id, event_ids, excluded_user) ==
    {event \in event_ids : Cardinality(ReadReceipts(db, event, room_id)) # 0}

\* filterReadEvents(room_id, event_ids, excluded_user): an event is skipped
\* when it has no receipt, or one receipt that is the excluded user's.
FilterReadEvents(db, room_id, event_ids, excluded_user) ==
    {event \in event_ids :
        LET receipts == ReadReceipts(db, event, room_id)
        IN  /\ Cardinality(receipts) # 0
            /\ ~(/\ Cardinality(receipts) = 1
                  /\ \A r \in receipts : r[2] = excluded_user)}

RECURSIVE RemoveAll(_, _, _)
RemoveAll(db, room_id, matches) ==
    IF matches = {} THEN db
    ELSE LET m == CHOOSE e \in matches : TRUE
         IN  RemoveAll(RemovePendingReceipt(db, room_id, m), room_id, matches \ {m})

\* newReadReceipts(room_id, matches)
NewReadReceipts(room_id, matches) == [room |-> room_id, events |-> matches]

\* notifyForReadReceipts(txn, room_id): the pending table afterwards and the
\* signals emitted.
NotifyForReadReceipts(pending, receipts, room_id) ==
    LET matches == FilterReadEvents(receipts, room_id,
                                    PendingReceiptsEvents(pending, room_id), LocalUser)
    IN  [pending |-> RemoveAll(pending, room_id, matches),
         emitted |-> IF matches # {} THEN {NewReadReceipts(room_id, matches)} ELSE {}]

\* The receipt keys of the events that a set of signals carries.
SignalledBy(emitted) ==
    UNION {{ReadReceiptKey(e, signal.room) : e \in signal.events} : signal \in emitted}

\* notifyForReadReceipts in a write transaction that commits.
notifyForReadReceipts(room_id) ==
    LET done == NotifyForReadReceipts(pendingReceiptsDb, readReceiptsDb, room_id)
    IN  /\ pendingReceiptsDb' = done.pending
        /\ signalled' = signalled \cup SignalledBy(done.emitted)
        /\ last' = [op |-> "notifyForReadReceipts", room |-> room_id,
                    emitted |-> done.emitted]
        /\ UNCHANGED <<sessionVars, readReceiptsDb, statesDb, roomsDb, messagesDb,
                       membersDb, invitesDb, inviteStatesDb, inviteMembersDb,
                       syncStateDb, AvatarUrls, lockVars, storeVars, olmSessionsDb>>

\* addPendingReceipt(room_id, event_id)
addPendingReceipt(room_id, event_id) ==
    /\ pendingReceiptsDb' =
           Put(pendingReceiptsDb, ReadReceiptKey(event_id, room_id), NoValue)
    /\ signalled' = signalled \ {ReadReceiptKey(event_id, room_id)}
    /\ last' = [op |-> "addPendingReceipt", room |-> room_id]
    /\ UNCHANGED <<sessionVars, readReceiptsDb, statesDb, roomsDb, messagesDb,
                   membersDb, invitesDb, inviteStatesDb, inviteMembersDb,
                   syncStateDb, AvatarUrls, lockVars, storeVars, olmSessionsDb>>

\* Receipts of one event of a room, as a sync payload carries them.
EventReceipts(room) ==
    UNION {[events -> Tables(Users, {MaxReceiptTs})] :
              events \in {{e} : e \in EventIds(room)}}

ReceiptNotifyNext ==
    \E room \in ReceiptRooms :
        \/ \E event_id \in EventIds(room) : addPendingReceipt(room, event_id)
        \/ \E receipts \in EventReceipts(room) : updateReadReceipt(room, receipts)
        \/ notifyForReadReceipts(room)

SpecReceiptNotify == Init /\ [][ReceiptNotifyNext]_vars

\* --------------------------------------------------------------- sync state

NEXT_BATCH_KEY == "next_batch"

RoomMember == "m.room.member"
RoomTopic == "m.room.topic"
RoomAvatar == "m.room.avatar"

\* A state event of a sync payload, in the state section or in the timeline.
StateEvent(event_type, state_key, content) ==
    [type |-> "state", event_type |-> event_type, state_key |-> state_key,
     content |-> content]

\* A stripped state event of an invite.
StrippedEvent(event_type, state_key, content) ==
    [event_type |-> event_type, state_key |-> state_key, content |-> content]

\* json(RoomInfo{name, topic, avatar_url, is_invite}).dump()
RoomInfo(name, topic, avatar_url, is_invite) ==
    [name |-> name, topic |-> topic, avatar_url |-> avatar_url,
     is_invite |-> is_invite]

\* The tables that a write transaction of saveState works on.
Store ==
    [syncStateDb |-> syncStateDb, statesDb |-> statesDb, membersDb |-> membersDb,
     messagesDb |-> messagesDb, roomsDb |-> roomsDb,
     readReceiptsDb |-> readReceiptsDb, invitesDb |-> invitesDb,
     inviteStatesDb |-> inviteStatesDb, inviteMembersDb |-> inviteMembersDb,
     pendingReceiptsDb |-> pendingReceiptsDb]

\* setNextBatchToken(txn, token)
SetNextBatchToken(db, token) == Put(db, NEXT_BATCH_KEY, token)

\* nextBatchToken(): the stored token, the empty string when none is stored.
NextBatchToken(db) == IF NEXT_BATCH_KEY \in DOMAIN db THEN db[NEXT_BATCH_KEY] ELSE ""

\* The display name stored for a member: the state key when the event has none.
MemberDisplayName(e) ==
    IF e.content.display_name = << >> THEN <<e.state_key>> ELSE e.content.display_name

\* saveStateEvents(txn, statesdb, membersdb, room_id, events): in the order of
\* the events, every state event is put into the state table under its type
\* and every membership event into the member table under its state key.
RECURSIVE SaveStateEvents(_, _, _)
SaveStateEvents(statesdb, membersdb, events) ==
    IF events = << >> THEN [states |-> statesdb, members |-> membersdb]
    ELSE LET e == Head(events)
         IN  IF ~isStateEvent(e)
             THEN SaveStateEvents(statesdb, membersdb, Tail(events))
             ELSE SaveStateEvents(
                      Put(statesdb, e.event_type, e.content),
                      IF e.event_type = RoomMember
                      THEN Put(membersdb, e.state_key,
                               MemberInfo(MemberDisplayName(e), e.content.avatar_url))
                      ELSE membersdb,
                      Tail(events))

\* getRoomTopic(txn, statesdb)
GetRoomTopic(statesdb) ==
    IF /\ RoomTopic \in DOMAIN statesdb
       /\ ~ParseFails(statesdb[RoomTopic])
       /\ statesdb[RoomTopic].topic # << >>
    THEN statesdb[RoomTopic].topic
    ELSE << >>

\* avatarUrl(room_id, user_id): a lookup in the AvatarUrls map.
avatarUrl(avatars, room_id, user_id) ==
    LET fmt == Arg(Arg(<<"%1", " ", "%2">>, <<room_id>>), <<user_id>>)
    IN  IF fmt \in DOMAIN avatars THEN avatars[fmt] ELSE << >>

\* The members other than the local user whose entry parses, and the first
\* of a set of users in table order.
ParsedOthers(membersdb) ==
    {u \in DOMAIN membersdb : u # LocalUser /\ ~ParseFails(membersdb[u])}

FirstUser(users) == CHOOSE u \in users : \A v \in users \ {u} : UserLess(u, v)

\* An avatar lookup that uses a member's avatar in rooms of any size.
GetRoomAvatarUrlOfAnyRoom(statesdb, membersdb, room_id, avatars) ==
    IF RoomAvatar \in DOMAIN statesdb /\ ~ParseFails(statesdb[RoomAvatar])
    THEN statesdb[RoomAvatar].url
    ELSE IF ParsedOthers(membersdb) # {}
    THEN membersdb[FirstUser(ParsedOthers(membersdb))].avatar_url
    ELSE avatarUrl(avatars, room_id, LocalUser)

\* getRoomAvatarUrl(txn, statesdb, membersdb, room_id)
GetRoomAvatarUrl(statesdb, membersdb, room_id, avatars) ==
    IF RoomAvatar \in DOMAIN statesdb /\ ~ParseFails(statesdb[RoomAvatar])
    THEN statesdb[RoomAvatar].url
    ELSE IF Cardinality(DOMAIN membersdb) > 2 THEN << >>
    ELSE IF ParsedOthers(membersdb) # {}
    THEN membersdb[FirstUser(ParsedOthers(membersdb))].avatar_url
    ELSE avatarUrl(avatars, room_id, LocalUser)

\* getInviteRoomName(txn, statesdb, membersdb)
GetInviteRoomName(statesdb, membersdb) ==
    IF RoomName \in DOMAIN statesdb /\ ~ParseFails(statesdb[RoomName])
    THEN statesdb[RoomName].name
    ELSE IF ParsedOthers(membersdb) # {}
    THEN membersdb[FirstUser(ParsedOthers(membersdb))].name
    ELSE <<"Empty Room">>

\* getInviteRoomAvatarUrl(txn, statesdb, membersdb)
GetInviteRoomAvatarUrl(statesdb, membersdb) ==
    IF RoomAvatar \in DOMAIN statesdb /\ ~ParseFails(statesdb[RoomAvatar])
    THEN statesdb[RoomAvatar].url
    ELSE IF ParsedOthers(membersdb) # {}
    THEN membersdb[FirstUser(ParsedOthers(membersdb))].avatar_url
    ELSE << >>

\* getInviteRoomTopic(txn, db)
GetInviteRoomTopic(db) ==
    IF RoomTopic \in DOMAIN db /\ ~ParseFails(db[RoomTopic])
    THEN db[RoomTopic].topic
    ELSE << >>

\* saveInvite(txn, statesdb, membersdb, room): a stripped member event goes
\* to the member table, any other one to the state table under its type.
RECURSIVE SaveInvite(_, _, _)
SaveInvite(statesdb, membersdb, invite_state) ==
    IF invite_state = << >> THEN [states |-> statesdb, members |-> membersdb]
    ELSE LET e == Head(invite_state)
         IN  IF e.event_type = RoomMember
             THEN SaveInvite(statesdb,
                             Put(membersdb, e.state_key,
                                 MemberInfo(MemberDisplayName(e), e.content.avatar_url)),
                             Tail(invite_state))
             ELSE SaveInvite(Put(statesdb, e.event_type, e.content), membersdb,
                             Tail(invite_state))

\* The keys of a map of rooms in the order std::map iterates them.
RoomOrder(rooms) == SelectSeq(RoomIds, LAMBDA r : r \in rooms)

\* saveInvites(txn, rooms), for the rooms listed in order.
RECURSIVE SaveInvites(_, _, _)
SaveInvites(store, rooms, order) ==
    IF order = << >> THEN store
    ELSE LET room_id == Head(order)
             saved == SaveInvite(StatesOf(store.inviteStatesDb, room_id),
                                 MembersOf(store.inviteMembersDb, room_id),
                                 rooms[room_id].invite_state)
             updatedInfo == RoomInfo(GetInviteRoomName(saved.states, saved.members),
                                     GetInviteRoomTopic(saved.states),
                                     GetInviteRoomAvatarUrl(saved.states, saved.members),
                                     TRUE)
         IN  SaveInvites([store EXCEPT
                             !.inviteStatesDb = Put(@, room_id, saved.states),
                             !.inviteMembersDb = Put(@, room_id, saved.members),
                             !.invitesDb = Put(@, room_id, updatedInfo)],
                         rooms, Tail(order))

\* removeInvite(txn, room_id)
RemoveInvite(store, room_id) ==
    [store EXCEPT !.invitesDb = Del(@, room_id),
                  !.inviteStatesDb = Del(@, room_id),
                  !.inviteMembersDb = Del(@, room_id)]

\* removeLeftRooms(txn, rooms): the RoomInfo entry of each left room is deleted.
RemoveLeftRooms(store, rooms) ==
    [store EXCEPT !.roomsDb = [r \in (DOMAIN @) \ rooms |-> @[r]]]

\* The steps of a joined room with the timeline applied before the state
\* section.
RoomStepsTimelineFirst ==
    <<"saveStateEvents(timeline)", "saveStateEvents(state)", "saveTimelineMessages",
      "dbi_put(roomsDb_)", "updateReadReceipt", "removeInvite">>

\* The writes of saveState before the commit, in order: the token, six steps
\* per joined room, the invites, the left rooms.
RoomSteps ==
    <<"saveStateEvents(state)", "saveStateEvents(timeline)", "saveTimelineMessages",
      "dbi_put(roomsDb_)", "updateReadReceipt", "removeInvite">>

RECURSIVE JoinSteps(_)
JoinSteps(order) ==
    IF order = << >> THEN << >>
    ELSE [i \in 1 .. Len(RoomSteps) |-> [op |-> RoomSteps[i], room |-> Head(order)]]
             \o JoinSteps(Tail(order))

SaveStateSteps(res) ==
    <<[op |-> "setNextBatchToken", room |-> NoRoom]>>
        \o JoinSteps(RoomOrder(DOMAIN res.rooms.join))
        \o <<[op |-> "saveInvites", room |-> NoRoom],
              [op |-> "removeLeftRooms", room |-> NoRoom]>>

\* One write of saveState on the tables of the transaction.
SaveStateStep(store, step, res, avatars) ==
    LET room_id == step.room
        room == res.rooms.join[room_id]
        statesdb == StatesOf(store.statesDb, room_id)
        membersdb == MembersOf(store.membersDb, room_id)
        SavedEvents(events) ==
            LET saved == SaveStateEvents(statesdb, membersdb, events)
            IN  [store EXCEPT !.statesDb = Put(@, room_id, saved.states),
                              !.membersDb = Put(@, room_id, saved.members)]
    IN  CASE step.op = "setNextBatchToken" ->
                 [store EXCEPT !.syncStateDb = SetNextBatchToken(@, res.next_batch)]
          [] step.op = "saveStateEvents(state)" -> SavedEvents(room.state.events)
          [] step.op = "saveStateEvents(timeline)" -> SavedEvents(room.timeline.events)
          [] step.op = "saveTimelineMessages" ->
                 [store EXCEPT !.messagesDb =
                     Put(@, room_id,
                         SaveTimelineMessages(MessagesOf(@, room_id),
                                              room.timeline.events,
                                              room.timeline.prev_batch))]
          [] step.op = "dbi_put(roomsDb_)" ->
                 [store EXCEPT !.roomsDb =
                     Put(@, room_id,
                         RoomInfo(GetRoomName(statesdb, membersdb),
                                  GetRoomTopic(statesdb),
                                  GetRoomAvatarUrl(statesdb, membersdb, room_id, avatars),
                                  FALSE))]
          [] step.op = "updateReadReceipt" ->
                 [store EXCEPT !.readReceiptsDb =
                     UpdateReadReceipt(@, room_id, room.ephemeral.receipts)]
          [] step.op = "removeInvite" -> RemoveInvite(store, room_id)
          [] step.op = "saveInvites" ->
                 SaveInvites(store, res.rooms.invite, RoomOrder(DOMAIN res.rooms.invite))
          [] step.op = "removeLeftRooms" -> RemoveLeftRooms(store, res.rooms.leave)

\* The tables of the transaction after the first n writes, the one numbered
\* skipped having written nothing.
RECURSIVE SaveStateWrites(_, _, _, _, _)
SaveStateWrites(store, res, n, skipped, avatars) ==
    IF n = 0 THEN store
    ELSE LET before == CHOOSE w \in {SaveStateWrites(store, res, n - 1, skipped,
                                                      avatars)} : TRUE
         IN  IF n = skipped THEN before
             ELSE SaveStateStep(before, SaveStateSteps(res)[n], res, avatars)

\* What a write may throw: an error of the storage engine, or in
\* updateReadReceipt an error of parsing the stored receipts.
NoError == "none"
Errors(step) ==
    IF step.op = "updateReadReceipt" THEN {"lmdb::error", "json::exception"}
    ELSE {"lmdb::error"}

\* updateReadReceipt catches the lmdb::error of its reads and writes, logs it
\* and carries on; any other exception of a write leaves saveState.
Caught(step, error) == step.op = "updateReadReceipt" /\ error = "lmdb::error"

\* An exception leaves saveState before txn.commit(): the destructor of the
\* transaction aborts it, and the environment holds what it held before.
Abort(store, written) == store

\* A commit that leaves the receipts table as it was before the transaction.
CommitWithoutReceipts(store, written) ==
    [written EXCEPT !.readReceiptsDb = store.readReceiptsDb]

\* txn.commit()
Commit(store, written) == written

\* The notification pass: a transaction per joined room, in order.
RECURSIVE NotifyJoined(_, _, _)
NotifyJoined(done, receipts, order) ==
    IF order = << >> THEN done
    ELSE LET pass == NotifyForReadReceipts(done.pending, receipts, Head(order))
         IN  NotifyJoined([pending |-> pass.pending,
                           emitted |-> done.emitted \cup pass.emitted],
                          receipts, Tail(order))

\* saveState(res): the store when it returns and the signals emitted; with
\* failed_at less than the number of writes, the write that follows the first
\* failed_at ones throws error.
SaveState(store, res, failed_at, error, avatars) ==
    LET steps == SaveStateSteps(res)
        failed == failed_at < Len(steps)
        caught == failed /\ Caught(steps[failed_at + 1], error)
    IN  IF failed /\ ~caught
        THEN [store |-> Abort(store, SaveStateWrites(store, res, failed_at, 0, avatars)),
              emitted |-> {}, threw |-> TRUE]
        ELSE LET written == SaveStateWrites(store, res, Len(steps),
                                            IF caught THEN failed_at + 1 ELSE 0,
                                            avatars)
                 committed == Commit(store, written)
                 notified == NotifyJoined([pending |-> committed.pendingReceiptsDb,
                                           emitted |-> {}],
                                          committed.readReceiptsDb,
                                          RoomOrder(DOMAIN res.rooms.join))
             IN  [store |-> [committed EXCEPT !.pendingReceiptsDb = notified.pending],
                  emitted |-> notified.emitted, threw |-> FALSE]

\* saveState(res)
saveState(res, failed_at, error) ==
    \E done \in {SaveState(Store, res, failed_at, error, AvatarUrls)} :
        /\ syncStateDb' = done.store.syncStateDb
        /\ statesDb' = done.store.statesDb
        /\ membersDb' = done.store.membersDb
        /\ messagesDb' = done.store.messagesDb
        /\ roomsDb' = done.store.roomsDb
        /\ readReceiptsDb' = done.store.readReceiptsDb
        /\ invitesDb' = done.store.invitesDb
        /\ inviteStatesDb' = done.store.inviteStatesDb
        /\ inviteMembersDb' = done.store.inviteMembersDb
        /\ pendingReceiptsDb' = done.store.pendingReceiptsDb
        /\ signalled' = signalled \cup SignalledBy(done.emitted)
        /\ last' = [op |-> "saveState", res |-> res,
                    failed |-> failed_at < Len(SaveStateSteps(res)),
                    threw |-> done.threw, emitted |-> done.emitted]
        /\ UNCHANGED <<sessionVars, AvatarUrls, lockVars, storeVars, olmSessionsDb>>

\* mtx::responses::Sync and its rooms; a left room is listed by its id.
JoinedRoom(state_events, timeline_events, receipts) ==
    [state |-> [events |-> state_events],
     timeline |-> [events |-> timeline_events, prev_batch |-> "p1"],
     ephemeral |-> [receipts |-> receipts]]

InvitedRoom(invite_state) == [invite_state |-> invite_state]

Sync(next_batch, join, invite, leave) ==
    [next_batch |-> next_batch,
     rooms |-> [join |-> join, invite |-> invite, leave |-> leave]]

\* The tables of a room after the state events of a joined room of a payload.
AfterStateEvents(store, room_id, room) ==
    LET state == SaveStateEvents(StatesOf(store.statesDb, room_id),
                                 MembersOf(store.membersDb, room_id),
                                 room.state.events)
    IN  SaveStateEvents(state.states, state.members, room.timeline.events)

NameEvent(name) == StateEvent(RoomName, "", [name |-> name])

MemberEvent(user_id, display_name) ==
    StateEvent(RoomMember, user_id,
               [display_name |-> display_name, avatar_url |-> << >>])

\* Payloads about the name of one room: a state section and a timeline that
\* name the room, clear its name or add a member; the room may be left too.
NamedRooms ==
    {JoinedRoom(state_events, timeline_events, EmptyTable) :
        state_events \in {<< >>, <<NameEvent(<<"Crew">>)>>,
                          <<MemberEvent("@u:x", <<"Ann">>)>>,
                          <<MemberEvent("@z:x", << >>), MemberEvent(LocalUser, <<"Me">>)>>},
        timeline_events \in {<< >>, <<NameEvent(<<"Den">>)>>,
                             <<TimelineEvent("message", "$1", 1), NameEvent(<< >>)>>}}

NamePayloads ==
    {Sync("t1", join, EmptyTable, leave) :
        join \in Tables({RoomIds[1]}, NamedRooms), leave \in SUBSET {RoomIds[1]}}

SyncNamesNext ==
    \E res \in NamePayloads : saveState(res, Len(SaveStateSteps(res)), NoError)

SpecSyncNames == Init /\ [][SyncNamesNext]_vars

\* Payloads over two rooms: each may be joined, with a name, a member, a
\* message and a receipt; the first may also be invited and may be left.
SyncedRoom(room_id) ==
    JoinedRoom(<<NameEvent(<<"Crew">>), MemberEvent("@u:x", <<"Ann">>)>>,
               <<TimelineEvent("message", "$1", 1)>>,
               [e \in {CHOOSE e \in EventIds(room_id) : TRUE} |->
                   [u \in {"@u:x"} |-> MaxReceiptTs]])

Invitation ==
    InvitedRoom(<<StrippedEvent(RoomName, "", [name |-> <<"Inv">>]),
                  StrippedEvent(RoomMember, "@u:x",
                                [display_name |-> << >>, avatar_url |-> << >>])>>)

SyncPayloads ==
    {Sync(next_batch, [r \in joined |-> SyncedRoom(r)],
          [r \in invited |-> Invitation], leave) :
        next_batch \in {"t1", "t2"},
        joined \in SUBSET {RoomIds[1], RoomIds[2]},
        invited \in SUBSET {RoomIds[1]},
        leave \in SUBSET {RoomIds[1]}}

\* saveState on any payload, with no error or with an error of any of its
\* writes.
SyncNext ==
    \E res \in SyncPayloads :
        \/ saveState(res, Len(SaveStateSteps(res)), NoError)
        \/ \E failed_at \in 0 .. Len(SaveStateSteps(res)) - 1 :
               \E error \in Errors(SaveStateSteps(res)[failed_at + 1]) :
                   saveState(res, failed_at, error)

SpecSync == Init /\ [][SyncNext]_vars

\* Payloads of receipts: each room may be joined, with a receipt of one user
\* for one of its events.
ReceiptedRooms(room_id) ==
    {JoinedRoom(<< >>, << >>, [e \in {event_id} |-> [u \in {user_id} |-> MaxReceiptTs]]) :
        event_id \in EventIds(room_id), user_id \in Users}

ReceiptPayloads ==
    {Sync("t1", join, EmptyTable, {}) :
        join \in UNION {{[r \in joined |-> IF r = RoomIds[1] THEN first ELSE second] :
                            first \in ReceiptedRooms(RoomIds[1]),
                            second \in ReceiptedRooms(RoomIds[2])} :
                        joined \in SUBSET ReceiptRooms}}

SyncReceiptsNext ==
    \/ \E room \in ReceiptRooms :
           \E event_id \in EventIds(room) : addPendingReceipt(room, event_id)
    \/ \E res \in ReceiptPayloads : saveState(res, Len(SaveStateSteps(res)), NoError)

SpecSyncReceipts == Init /\ [][SyncReceiptsNext]_vars

\* Pending receipts added, receipts synced, rooms notified, in any order.
PendingSignalNext ==
    \/ SyncReceiptsNext
    \/ \E room \in ReceiptRooms : notifyForReadReceipts(room)

SpecPendingSignal == Init /\ [][PendingSignalNext]_vars

\* Receipts merged by updateReadReceipt called on its own and by saveState.
ReceiptMergeNext ==
    \/ \E room \in ReceiptRooms :
           \E receipts \in EventReceipts(room) : updateReadReceipt(room, receipts)
    \/ \E res \in ReceiptPayloads : saveState(res, Len(SaveStateSteps(res)), NoError)

SpecReceiptMerge == Init /\ [][ReceiptMergeNext]_vars

\* ------------------------------------------------------------ room avatar

\* getRoomAvatarUrl on the tables of a room, in a transaction.
getRoomAvatarUrl(room_id) ==
    /\ last' = [op |-> "getRoomAvatarUrl", room |-> room_id,
                ret |-> GetRoomAvatarUrl(StatesOf(statesDb, room_id),
                                         MembersOf(membersDb, room_id), room_id,
                                         AvatarUrls)]
    /\ UNCHANGED <<sessionVars, nonSessionVars>>

\* Avatar urls of rooms and of members ("" is << >>).
RoomAvatarUrls == {<< >>, <<"mxc://x/room">>}
MemberAvatarUrls == {<< >>, <<"mxc://x/1">>, <<"mxc://x/2">>}

\* State tables with an avatar event or without.
AvatarStates == {[ty \in {RoomAvatar} |-> [url |-> u]] : u \in RoomAvatarUrls} \cup {EmptyTable}

\* Members tables over MemberIds, every member with an avatar url.
AvatarMemberTables ==
    UNION {[present -> {MemberInfo(<<"Ann">>, url) : url \in MemberAvatarUrls}] :
              present \in SUBSET Pieces(MemberIds)}

\* The avatar urls in memory: none, or the local user's in the room.
AvatarMaps(room_id) ==
    {EmptyTable,
     [k \in {Arg(Arg(<<"%1", " ", "%2">>, <<room_id>>), <<LocalUser>>)} |-> <<"mxc://x/me">>]}

RoomAvatarInit ==
    /\ SessionInit
    /\ readReceiptsDb = EmptyTable
    /\ roomsDb = EmptyTable
    /\ messagesDb = EmptyTable
    /\ invitesDb = EmptyTable
    /\ inviteStatesDb = EmptyTable
    /\ inviteMembersDb = EmptyTable
    /\ syncStateDb = EmptyTable
    /\ pendingReceiptsDb = EmptyTable
    /\ AvatarUrls \in AvatarMaps(RoomIds[1])
    /\ LockInit
    /\ olmSessionsDb = EmptyTable
    /\ signalled = {}
    /\ StoreInit
    /\ statesDb \in {[r \in {RoomIds[1]} |-> states] : states \in AvatarStates}
    /\ membersDb \in {[r \in {RoomIds[1]} |-> members] : members \in AvatarMemberTables}
    /\ last = NoOp

RoomAvatarNext == getRoomAvatarUrl(RoomIds[1])

SpecRoomAvatar == RoomAvatarInit /\ [][RoomAvatarNext]_vars

\* ------------------------------------------------------ session statements
\* The session operations statement by statement, for one session index and
\* one room: what each thread does to the transaction, the mutexes and the
\* mirror maps, in the order of the code.

MaxSessionObjects == 3

MutexOf(mirror) ==
    IF mirror = "group_inbound_sessions" THEN "group_inbound_mtx" ELSE "group_outbound_mtx"

Stmt(k, on) == [k |-> k, on |-> on]

\* std::unique_lock<std::mutex> lock(m); ... } : the statements between run
\* with the mutex held.
Locked(m, body) == <<Stmt("lock", m)>> \o body \o <<Stmt("unlock", m)>>

\* A save that holds its mutex from before the transaction until the end.
SaveLockedCommit(db, m, assigns) ==
    Locked(m, <<Stmt("txn_begin", "rw"), Stmt("dbi_put", db), Stmt("txn_commit", "")>>
              \o assigns)

\* A save: the pickled session is put and committed, then the mirror is
\* assigned in a block that holds the mutex.
Save(db, m, assigns) ==
    <<Stmt("txn_begin", "rw"), Stmt("dbi_put", db), Stmt("txn_commit", "")>>
    \o Locked(m, assigns)

Statements(op) ==
    CASE op = "saveInboundMegolmSession" ->
            Save("inboundMegolmSessionDb", "group_inbound_mtx",
                 <<Stmt("assign", "group_inbound_sessions")>>)
      [] op = "getInboundMegolmSession" ->
            Locked("group_inbound_mtx", <<Stmt("get", "group_inbound_sessions")>>)
            \o <<Stmt("use", "group_inbound_sessions")>>
      [] op = "inboundMegolmSessionExists" ->
            Locked("group_inbound_mtx", <<Stmt("find", "group_inbound_sessions")>>)
      [] op = "updateOutboundMegolmSession" ->
            Locked("group_outbound_mtx",
                   <<Stmt("find", "group_outbound_sessions"),
                     Stmt("find", "group_outbound_session_data")>>)
            \o <<Stmt("return_unless", "found")>>
            \o Locked("group_outbound_mtx",
                      <<Stmt("read", "group_outbound_session_data"),
                        Stmt("get", "group_outbound_sessions"),
                        Stmt("assign", "group_outbound_session_data")>>)
            \o <<Stmt("use", "group_outbound_sessions"),
                 Stmt("txn_begin", "rw"), Stmt("dbi_put", "outboundMegolmSessionDb"),
                 Stmt("txn_commit", "")>>
      [] op = "saveOutboundMegolmSession" ->
            Save("outboundMegolmSessionDb", "group_outbound_mtx",
                 <<Stmt("assign", "group_outbound_session_data"),
                   Stmt("assign", "group_outbound_sessions")>>)
      [] op = "outboundMegolmSessionExists" ->
            Locked("group_outbound_mtx",
                   <<Stmt("find", "group_outbound_sessions"),
                     Stmt("find", "group_outbound_session_data")>>)
      [] op = "getOutboundMegolmSession" ->
            Locked("group_outbound_mtx",
                   <<Stmt("get", "group_outbound_sessions"),
                     Stmt("read", "group_outbound_session_data")>>)
            \o <<Stmt("use", "group_outbound_sessions")>>
      [] op = "restoreSessions" ->
            <<Stmt("txn_begin", "ro"),
              Stmt("cursor_get", "inboundMegolmSessionDb"),
              Stmt("assign", "group_inbound_sessions"),
              Stmt("cursor_get", "outboundMegolmSessionDb"),
              Stmt("assign", "group_outbound_session_data"),
              Stmt("assign", "group_outbound_sessions"),
              Stmt("txn_commit", "")>>
      [] op = "isRoomEncrypted" ->
            <<Stmt("txn_begin", "rw"), Stmt("dbi_open", "encrypted_rooms"),
              Stmt("dbi_get", "encrypted_rooms"), Stmt("txn_commit", "")>>
      [] op = "saveOlmSession" ->
            <<Stmt("txn_begin", "rw"), Stmt("dbi_open", "olm_sessions"),
              Stmt("dbi_put", "olm_sessions"), Stmt("txn_commit", "")>>
      [] op = "getOlmSession" ->
            <<Stmt("txn_begin", "rw"), Stmt("dbi_open", "olm_sessions"),
              Stmt("dbi_get", "olm_sessions"), Stmt("txn_commit", "")>>
      [] op = "getOlmSessions" ->
            <<Stmt("txn_begin", "rw"), Stmt("dbi_open", "olm_sessions"),
              Stmt("cursor_get", "olm_sessions"), Stmt("txn_commit", "")>>
      [] op = "saveOlmAccount" ->
            <<Stmt("txn_begin", "rw"), Stmt("dbi_put", "syncStateDb"),
              Stmt("txn_commit", "")>>
      [] op = "restoreOlmAccount" ->
            <<Stmt("txn_begin", "ro"), Stmt("dbi_get", "syncStateDb"),
              Stmt("txn_commit", "")>>
      [] op = "nextBatchToken" ->
            <<Stmt("txn_begin", "ro"), Stmt("dbi_get", "syncStateDb"),
              Stmt("txn_commit", "")>>
      [] op = "getRoomInfo" ->
            <<Stmt("txn_begin", "rw"), Stmt("dbi_open", "statesDb"),
              Stmt("dbi_get", "roomsDb"), Stmt("dbi_open", "membersDb"),
              Stmt("dbi_get", "statesDb"), Stmt("txn_commit", "")>>
      [] op = "populateMembers" ->
            <<Stmt("txn_begin", "ro"), Stmt("cursor_get", "roomsDb"),
              Stmt("txn_commit", ""),
              Stmt("txn_begin", "rw"), Stmt("dbi_open", "membersDb"),
              Stmt("cursor_get", "membersDb"), Stmt("txn_commit", "")>>
      [] op = "isRoomMember" ->
            <<Stmt("txn_begin", "rw"), Stmt("dbi_open", "membersDb"),
              Stmt("dbi_get", "membersDb"), Stmt("txn_commit", "")>>
      [] op = "hasEnoughPowerLevel" ->
            <<Stmt("txn_begin", "rw"), Stmt("dbi_open", "statesDb"),
              Stmt("dbi_get", "statesDb"), Stmt("txn_commit", "")>>
      [] OTHER -> << >>

SessionOps ==
    {"saveInboundMegolmSession", "getInboundMegolmSession", "inboundMegolmSessionExists",
     "updateOutboundMegolmSession", "saveOutboundMegolmSession",
     "outboundMegolmSessionExists", "getOutboundMegolmSession", "restoreSessions"}

\* The mirrors that an operation puts a new object into.
AssignsTo(op) ==
    {Statements(op)[i].on : i \in {j \in DOMAIN Statements(op) : Statements(op)[j].k = "assign"}}

\* The statement that thread t runs next, none when the call has returned.
Current(t) ==
    IF call[t].op # "none" /\ call[t].at <= Len(Statements(call[t].op))
    THEN Statements(call[t].op)[call[t].at]
    ELSE Stmt("none", "")

Advance(t) == [call EXCEPT ![t].at = @ + 1]

\* A thread calls an operation; an operation that stores objects is called
\* while the mirror has room for one more.
Call(t, op) ==
    /\ call[t].op = "none"
    /\ \A m \in AssignsTo(op) :
           owned[m] + Cardinality({u \in Threads : m \in AssignsTo(call[u].op)})
               < MaxSessionObjects
    /\ call' = [call EXCEPT ![t] = [NoCall EXCEPT !.op = op, !.at = 1]]
    /\ UNCHANGED <<mutex, write_txn, owned>>

\* lmdb::txn::begin: a write transaction waits for the writer lock of the
\* environment, a read-only one does not.
txn_begin(t) ==
    /\ Current(t).k = "txn_begin"
    /\ Current(t).on = "rw" => write_txn = 0
    /\ write_txn' = IF Current(t).on = "rw" THEN t ELSE write_txn
    /\ call' = [Advance(t) EXCEPT ![t].txn = Current(t).on]
    /\ UNCHANGED <<mutex, owned>>

\* lmdb::dbi::open, lmdb::dbi_put, lmdb::dbi_get and cursor.get inside the
\* transaction.
dbi(t) ==
    /\ Current(t).k \in {"dbi_open", "dbi_put", "dbi_get", "cursor_get"}
    /\ call[t].txn # "none"
    /\ call' = Advance(t)
    /\ UNCHANGED <<mutex, write_txn, owned>>

txn_commit(t) ==
    /\ Current(t).k = "txn_commit"
    /\ write_txn' = IF call[t].txn = "rw" THEN 0 ELSE write_txn
    /\ call' = [Advance(t) EXCEPT ![t].txn = "none"]
    /\ UNCHANGED <<mutex, owned>>

\* std::unique_lock's constructor: waits until the mutex is free.
lock(t) ==
    /\ Current(t).k = "lock"
    /\ mutex[Current(t).on] = 0
    /\ mutex' = [mutex EXCEPT ![Current(t).on] = t]
    /\ call' = Advance(t)
    /\ UNCHANGED <<write_txn, owned>>

\* std::unique_lock's destructor at the end of the block or at the return.
unlock(t) ==
    /\ Current(t).k = "unlock"
    /\ mutex' = [mutex EXCEPT ![Current(t).on] = 0]
    /\ call' = Advance(t)
    /\ UNCHANGED <<write_txn, owned>>

MirrorAccesses == {"assign", "get", "find", "read"}

\* A statement on a mirror map begins: the thread is inside the map.
Enter(t) ==
    /\ Current(t).k \in MirrorAccesses
    /\ call[t].touching = ""
    /\ call' = [call EXCEPT ![t].touching = Current(t).on]
    /\ UNCHANGED <<mutex, write_txn, owned>>

\* The statement ends.  map[key] = std::move(session) makes the map own a new
\* object and destroys the one it owned; map[key].get() hands out the address
\* of the object the map owns; find tells whether the map has the key.
Leave(t) ==
    /\ Current(t).k \in MirrorAccesses
    /\ call[t].touching = Current(t).on
    /\ owned' = IF Current(t).k = "assign"
                THEN [owned EXCEPT ![Current(t).on] = @ + 1]
                ELSE owned
    /\ call' = [Advance(t) EXCEPT
                   ![t].touching = "",
                   ![t].handle = IF Current(t).k = "get" THEN owned[Current(t).on] ELSE @,
                   ![t].handle_of = IF Current(t).k = "get" THEN Current(t).on ELSE @,
                   ![t].found = IF Current(t).k = "find"
                                THEN @ /\ owned[Current(t).on] # 0 ELSE @]
    /\ UNCHANGED <<mutex, write_txn>>

\* if (!outboundMegolmSessionExists(room_id)) return;
return_unless(t) ==
    /\ Current(t).k = "return_unless"
    /\ call' = IF call[t].found THEN Advance(t) ELSE [call EXCEPT ![t] = NoCall]
    /\ UNCHANGED <<mutex, write_txn, owned>>

\* The address handed out is dereferenced: by pickle in the update, by the
\* caller after a get.
use(t) ==
    /\ Current(t).k = "use"
    /\ call' = Advance(t)
    /\ UNCHANGED <<mutex, write_txn, owned>>

\* The call returns.
Return(t) ==
    /\ call[t].op # "none"
    /\ Current(t).k = "none"
    /\ call' = [call EXCEPT ![t] = NoCall]
    /\ UNCHANGED <<mutex, write_txn, owned>>

StatementsNext ==
    \E t \in Threads :
        /\ \/ \E op \in SessionOps : Call(t, op)
           \/ txn_begin(t)
           \/ dbi(t)
           \/ txn_commit(t)
           \/ lock(t)
           \/ unlock(t)
           \/ Enter(t)
           \/ Leave(t)
           \/ return_unless(t)
           \/ use(t)
           \/ Return(t)
        /\ UNCHANGED <<sessionVars, readReceiptsDb, statesDb, roomsDb, messagesDb,
                       syncVars, storeVars, olmSessionsDb, signalled, last>>

SpecStatements == Init /\ [][StatementsNext]_vars

\* The operations on the store alone, called by concurrent threads.
StoreOps ==
    {"isRoomEncrypted", "saveOlmSession", "getOlmSession", "getOlmSessions",
     "saveOlmAccount", "restoreOlmAccount", "nextBatchToken", "getRoomInfo",
     "populateMembers", "isRoomMember", "hasEnoughPowerLevel"}

\* An operation that only reads the store: it puts nothing.
OnlyReads(op) ==
    /\ op \in StoreOps
    /\ \A i \in DOMAIN Statements(op) : Statements(op)[i].k # "dbi_put"

TransactionsNext ==
    \E t \in Threads :
        /\ \/ \E op \in StoreOps : Call(t, op)
           \/ txn_begin(t)
           \/ dbi(t)
           \/ txn_commit(t)
           \/ Return(t)
        /\ UNCHANGED <<sessionVars, readReceiptsDb, statesDb, roomsDb, messagesDb,
                       syncVars, storeVars, olmSessionsDb, signalled, last>>

SpecTransactions == Init /\ [][TransactionsNext]_vars

\* A thread that waits for a mutex or for the writer lock, and the thread
\* that holds what it waits for.
WaitsFor(t) ==
    IF Current(t).k = "lock" THEN mutex[Current(t).on]
    ELSE IF Current(t).k = "txn_begin" /\ Current(t).on = "rw" THEN write_txn
    ELSE 0

\* ------------------------------------------------------------ environment
\* The cache directory, the environment opened on it and the format marker.

CURRENT_CACHE_FORMAT_VERSION == "2018.06.10"
CACHE_FORMAT_VERSION_KEY == "cache_format_version"

\* What a cache directory can hold: nothing (it does not exist), no file,
\* the files of an environment of this engine, the files of an environment
\* of another engine version, files that are no environment.
DirStates == {"absent", "empty", "environment", "version_mismatch", "invalid"}

Files(dir) == IF dir \in {"absent", "empty"} THEN {} ELSE {"data.mdb", "lock.mdb"}

\* QDir::entryList(filters): an entry is listed only when the filters name
\* its kind (QDir::Files for a file); QDir::NoDotAndDotDot names no kind.
EntryList(dir, filters) == IF "Files" \in filters THEN Files(dir) ELSE {}

\* env_.open(statePath): the return code, for a directory that exists.
Open(dir, error) ==
    IF error THEN "EACCES"
    ELSE IF dir = "version_mismatch" THEN "MDB_VERSION_MISMATCH"
    ELSE IF dir = "invalid" THEN "MDB_INVALID"
    ELSE "MDB_SUCCESS"

\* The catch block of setup: the files that entryList lists are removed, a
\* failed removal throws; then the environment is opened again, outside any
\* try block.
Reset(dir, remove_ok, error) ==
    LET listed == EntryList(dir, {"NoDotAndDotDot"})
    IN  IF listed # {} /\ ~remove_ok
        THEN [dir |-> dir, env |-> "none", opens |-> 1, removed |-> {},
              threw |-> "Unable to delete file"]
        ELSE LET left == IF listed = Files(dir) THEN "empty" ELSE dir
                 rc == Open(left, error)
             IN  IF rc = "MDB_SUCCESS"
                 THEN [dir |-> "environment", env |-> "open", opens |-> 2,
                       removed |-> listed, threw |-> ""]
                 ELSE [dir |-> left, env |-> "none", opens |-> 2,
                       removed |-> listed, threw |-> rc]

\* setup(): the directory afterwards, whether the environment is open, how
\* many times it was opened, the files removed and the exception thrown.
Setup(dir, mkpath_ok, error1, remove_ok, error2) ==
    LET isInitial == dir = "absent"
        made == IF isInitial THEN "empty" ELSE dir
        rc == Open(made, error1)
    IN  IF isInitial /\ ~mkpath_ok
        THEN [dir |-> dir, env |-> "none", opens |-> 0, removed |-> {},
              threw |-> "Unable to create state directory"]
        ELSE IF rc = "MDB_SUCCESS"
        THEN [dir |-> "environment", env |-> "open", opens |-> 1, removed |-> {},
              threw |-> ""]
        ELSE IF rc \notin {"MDB_VERSION_MISMATCH", "MDB_INVALID"}
        THEN [dir |-> made, env |-> "none", opens |-> 1, removed |-> {},
              threw |-> "LMDB initialization failed"]
        ELSE Reset(made, remove_ok, error2)

\* A format check that takes a store without a marker for an old one.
IsFormatValidRequiringMarker(db) ==
    /\ CACHE_FORMAT_VERSION_KEY \in DOMAIN db
    /\ db[CACHE_FORMAT_VERSION_KEY] = CURRENT_CACHE_FORMAT_VERSION

IsFormatValid(db) ==
    IF CACHE_FORMAT_VERSION_KEY \notin DOMAIN db THEN TRUE
    ELSE IF db[CACHE_FORMAT_VERSION_KEY] # CURRENT_CACHE_FORMAT_VERSION THEN FALSE
    ELSE TRUE

SetCurrentFormat(db) == Put(db, CACHE_FORMAT_VERSION_KEY, CURRENT_CACHE_FORMAT_VERSION)

IsInitialized(db) == NEXT_BATCH_KEY \in DOMAIN db

\* The Cache object is constructed in a new process: setup() runs; an
\* environment opened on a directory without files has empty tables.
setup(mkpath_ok, error1, remove_ok, error2) ==
    /\ env_ = "none"
    /\ \E done \in {Setup(cacheFiles, mkpath_ok, error1, remove_ok, error2)} :
        /\ cacheFiles' = done.dir
        /\ env_' = done.env
        /\ last' = [op |-> "setup", before |-> cacheFiles, mkpath_ok |-> mkpath_ok,
                    first |-> IF done.opens = 0 THEN "" ELSE
                              Open(IF cacheFiles = "absent" THEN "empty" ELSE cacheFiles,
                                   error1),
                    opens |-> done.opens, removed |-> done.removed,
                    threw |-> done.threw]
        /\ IF done.env = "open" /\ (cacheFiles # "environment" \/ done.opens = 2)
           THEN /\ syncStateDb' = EmptyTable
                /\ inboundMegolmSessionDb' = EmptyTable
                /\ outboundMegolmSessionDb' = EmptyTable
                /\ olmSessionsDb' = EmptyTable
           ELSE UNCHANGED <<syncStateDb, inboundMegolmSessionDb, outboundMegolmSessionDb,
                            olmSessionsDb>>
    /\ UNCHANGED <<group_inbound_sessions, group_outbound_session_data,
                   group_outbound_sessions, thread, crashed, saved_inbound,
                   known_inbound, known_outbound, boot>>
    /\ UNCHANGED <<readReceiptsDb, statesDb, roomsDb, messagesDb, membersDb, invitesDb,
                   inviteStatesDb, inviteMembersDb, pendingReceiptsDb, AvatarUrls,
                   lockVars, signalled>>

\* The process ends: the environment is closed, session_storage is gone.
Exit ==
    /\ env_ = "open"
    /\ AllIdle
    /\ env_' = "none"
    /\ group_inbound_sessions' = EmptyTable
    /\ group_outbound_session_data' = EmptyTable
    /\ group_outbound_sessions' = EmptyTable
    /\ known_inbound' = EmptyTable
    /\ known_outbound' = {}
    /\ boot' = "restarted"
    /\ last' = Done("Exit", 0)
    /\ UNCHANGED <<inboundMegolmSessionDb, outboundMegolmSessionDb, thread, crashed,
                   saved_inbound, cacheFiles>>
    /\ UNCHANGED <<readReceiptsDb, statesDb, roomsDb, messagesDb, syncVars, lockVars,
                   olmSessionsDb, signalled>>

\* deleteData(): the cache directory is removed from the disk; env_ stays
\* open on the removed files and session_storage is left as it is.
deleteData ==
    /\ env_ = "open"
    /\ cacheFiles' = "absent"
    /\ last' = Done("deleteData", 0)
    /\ UNCHANGED <<sessionVars, readReceiptsDb, statesDb, roomsDb, messagesDb, syncVars,
                   lockVars, env_, olmSessionsDb, signalled>>

isFormatValid ==
    /\ env_ = "open"
    /\ last' = [Done("isFormatValid", 0) EXCEPT !.ret = IsFormatValid(syncStateDb)]
    /\ UNCHANGED <<sessionVars, nonSessionVars>>

setCurrentFormat ==
    /\ env_ = "open"
    /\ syncStateDb' = SetCurrentFormat(syncStateDb)
    /\ last' = [Done("setCurrentFormat", 0) EXCEPT
                   !.found = CACHE_FORMAT_VERSION_KEY \in DOMAIN syncStateDb,
                   !.ret = IF CACHE_FORMAT_VERSION_KEY \in DOMAIN syncStateDb
                           THEN syncStateDb[CACHE_FORMAT_VERSION_KEY] ELSE Null]
    /\ UNCHANGED <<sessionVars, readReceiptsDb, statesDb, roomsDb, messagesDb, membersDb,
                   invitesDb, inviteStatesDb, inviteMembersDb, pendingReceiptsDb,
                   AvatarUrls, lockVars, storeVars, olmSessionsDb, signalled>>

isInitialized ==
    /\ env_ = "open"
    /\ last' = [Done("isInitialized", 0) EXCEPT !.ret = IsInitialized(syncStateDb)]
    /\ UNCHANGED <<sessionVars, nonSessionVars>>

\* The versions a marker was written with, and a token of an earlier sync.
StoredVersions == {"2018.06.10", "2018.05.11"}

FormatTables ==
    {db \in UNION {[ks -> StoredVersions \cup {"s1"}] :
                      ks \in SUBSET {CACHE_FORMAT_VERSION_KEY, NEXT_BATCH_KEY}} :
        /\ CACHE_FORMAT_VERSION_KEY \in DOMAIN db
              => db[CACHE_FORMAT_VERSION_KEY] \in StoredVersions
        /\ NEXT_BATCH_KEY \in DOMAIN db => db[NEXT_BATCH_KEY] = "s1"}

\* Before the Cache object is constructed: a cache directory in any state;
\* an environment written by this program holds a marker and a token or not.
StoreStartInit ==
    /\ SessionInit
    /\ cacheFiles \in DirStates
    /\ env_ = "none"
    /\ syncStateDb \in IF cacheFiles = "environment" THEN FormatTables ELSE {EmptyTable}
    /\ membersDb = EmptyTable
    /\ invitesDb = EmptyTable
    /\ inviteStatesDb = EmptyTable
    /\ inviteMembersDb = EmptyTable
    /\ pendingReceiptsDb = EmptyTable
    /\ AvatarUrls = EmptyTable
    /\ readReceiptsDb = EmptyTable
    /\ statesDb = EmptyTable
    /\ roomsDb = EmptyTable
    /\ messagesDb = EmptyTable
    /\ LockInit
    /\ olmSessionsDb = EmptyTable
    /\ signalled = {}
    /\ last = NoOp

StoreIndex == CHOOSE index \in MegolmSessionIndex : index.session_id = 1

StoreNext ==
    \/ \E mkpath_ok, error1, remove_ok, error2 \in BOOLEAN :
          setup(mkpath_ok, error1, remove_ok, error2)
    \/ Exit
    \/ deleteData
    \/ isFormatValid
    \/ setCurrentFormat
    \/ isInitialized
    \/ env_ = "open" /\ saveInboundMegolmSession_put(1, StoreIndex, "s1")
    \/ env_ = "open" /\ saveInboundMegolmSession_mirror(1)
    \/ env_ = "open" /\ inboundMegolmSessionExists(1, StoreIndex)

SpecStore == StoreStartInit /\ [][StoreNext]_vars

\* ----------------------------------------------------------------- search

MaxItems == 3

\* QString::toLower on the letters of the model.
ToLower(str) ==
    [i \in 1 .. Len(str) |->
        IF str[i] = "A" THEN "a" ELSE IF str[i] = "B" THEN "b" ELSE str[i]]

\* utils::levenshtein_distance(s1, s2): the edit distance of the first m
\* letters of s1 and the first n letters of s2.
RECURSIVE Levenshtein(_, _, _, _)
Levenshtein(s1, s2, m, n) ==
    IF m = 0 THEN n
    ELSE IF n = 0 THEN m
    ELSE Min(Min(Levenshtein(s1, s2, m - 1, n) + 1, Levenshtein(s1, s2, m, n - 1) + 1),
             Levenshtein(s1, s2, m - 1, n - 1) + (IF s1[m] = s2[n] THEN 0 ELSE 1))

levenshtein_distance(s1, s2) == Levenshtein(s1, s2, Len(s1), Len(s2))

\* The score of a room in searchRooms: the room's name is lowered, the query
\* is taken as it is.
Score(query, info) == levenshtein_distance(query, ToLower(info.name))

\* An emplace that puts an item before the items of the same score.
EmplaceItemFirst(items, item) ==
    LET before == SelectSeq(items, LAMBDA i : i.score < item.score)
        after == SelectSeq(items, LAMBDA i : i.score >= item.score)
    IN  before \o <<item>> \o after

\* std::multimap::emplace: the item goes after the items whose key is not
\* greater.
EmplaceItem(items, item) ==
    LET before == SelectSeq(items, LAMBDA i : i.score <= item.score)
        after == SelectSeq(items, LAMBDA i : i.score > item.score)
    IN  before \o <<item>> \o after

\* The cursor loop of searchRooms over the rooms in key order.
RECURSIVE ScoreRooms(_, _, _, _)
ScoreRooms(db, query, order, items) ==
    IF order = << >> THEN items
    ELSE ScoreRooms(db, query, Tail(order),
                    EmplaceItem(items, [score |-> Score(query, db[Head(order)]),
                                        room_id |-> Head(order),
                                        info |-> db[Head(order)]]))

\* searchRooms(query, max_items): the first max_items items, all of them
\* when there are fewer.
SearchRooms(db, query, max_items) ==
    LET items == ScoreRooms(db, query, RoomOrder(DOMAIN db), << >>)
        end == IF Len(items) >= max_items THEN max_items
               ELSE IF Len(items) > 0 THEN Len(items)
               ELSE 0
    IN  [i \in 1 .. end |-> [room_id |-> items[i].room_id, info |-> items[i].info]]

searchRooms(query, max_items) ==
    /\ last' = [op |-> "searchRooms", query |-> query, max_items |-> max_items,
                ret |-> SearchRooms(roomsDb, query, max_items)]
    /\ UNCHANGED <<sessionVars, nonSessionVars>>

\* Room names and queries over two letters in both cases.
SearchNames == {<<"a">>, <<"A">>, <<"a", "b">>, <<"A", "b">>, <<"b", "a">>}
Queries == {<<"a">>, <<"A">>, <<"a", "b">>, <<"A", "b">>, <<"A", "B">>}

SearchInit ==
    /\ SessionInit
    /\ readReceiptsDb = EmptyTable
    /\ statesDb = EmptyTable
    /\ membersDb = EmptyTable
    /\ messagesDb = EmptyTable
    /\ invitesDb = EmptyTable
    /\ inviteStatesDb = EmptyTable
    /\ inviteMembersDb = EmptyTable
    /\ syncStateDb = EmptyTable
    /\ pendingReceiptsDb = EmptyTable
    /\ AvatarUrls = EmptyTable
    /\ LockInit
    /\ olmSessionsDb = EmptyTable
    /\ signalled = {}
    /\ StoreInit
    /\ roomsDb \in UNION {[present -> {RoomInfo(name, << >>, << >>, FALSE) :
                                          name \in SearchNames}] :
                             present \in SUBSET Pieces(RoomIds)}
    /\ last = NoOp

SearchNext == \E query \in Queries, max_items \in 0 .. MaxItems : searchRooms(query, max_items)

SpecSearch == SearchInit /\ [][SearchNext]_vars

\* ------------------------------------------------------------ olm sessions

\* Peers by their curve25519 key; Olm sessions by id and ratchet state.
Peers == {"curveA", "curveB"}
OlmSessionIds == {"id1", "id2"}
OlmSessions == [id : OlmSessionIds, ratchet : 0 .. 1]

\* mtx::crypto::session_id(session.get())
session_id(session) == session.id

\* getOlmSessionsDb(txn, curve25519): the table of the peer, created empty
\* when it is opened for the first time.
GetOlmSessionsDb(db, curve25519) ==
    IF curve25519 \in DOMAIN db THEN db[curve25519] ELSE EmptyTable

\* A save that puts the session into the table of every peer.
SaveOlmSessionForAllPeers(db, curve25519, session) ==
    [peer \in Peers |->
        Put(GetOlmSessionsDb(db, peer), session_id(session), Pickle(session, SECRET))]

\* saveOlmSession(curve25519, session)
SaveOlmSession(db, curve25519, session) ==
    Put(db, curve25519,
        Put(GetOlmSessionsDb(db, curve25519), session_id(session),
            Pickle(session, SECRET)))

\* unpickle<SessionObject>(data, SECRET) of a pickled Olm session.
UnpickleOlm(blob, key) ==
    IF blob.key = key /\ blob.body \in OlmSessions
    THEN [ok |-> TRUE, session |-> blob.body]
    ELSE [ok |-> FALSE, session |-> Null]

\* getOlmSession(curve25519, session_id): boost::none when nothing is stored.
GetOlmSession(db, curve25519, id) ==
    LET table == GetOlmSessionsDb(db, curve25519)
    IN  IF id \in DOMAIN table
        THEN [found |-> TRUE, session |-> UnpickleOlm(table[id], SECRET).session]
        ELSE [found |-> FALSE, session |-> Null]

\* getOlmSessions(curve25519): the keys of the peer's table.
GetOlmSessions(db, curve25519) == DOMAIN GetOlmSessionsDb(db, curve25519)

OlmUnchanged ==
    UNCHANGED <<sessionVars, readReceiptsDb, statesDb, roomsDb, messagesDb, syncVars,
                lockVars, storeVars, signalled>>

\* Opening the peer's table in the write transaction creates it.
OpenOlmSessionsDb(db, curve25519) == Put(db, curve25519, GetOlmSessionsDb(db, curve25519))

saveOlmSession(curve25519, session) ==
    /\ olmSessionsDb' = SaveOlmSession(olmSessionsDb, curve25519, session)
    /\ last' = [op |-> "saveOlmSession", peer |-> curve25519, session |-> session]
    /\ OlmUnchanged

getOlmSession(curve25519, id) ==
    /\ olmSessionsDb' = OpenOlmSessionsDb(olmSessionsDb, curve25519)
    /\ last' = [op |-> "getOlmSession", peer |-> curve25519, id |-> id,
                ret |-> GetOlmSession(olmSessionsDb, curve25519, id)]
    /\ OlmUnchanged

getOlmSessions(curve25519) ==
    /\ olmSessionsDb' = OpenOlmSessionsDb(olmSessionsDb, curve25519)
    /\ last' = [op |-> "getOlmSessions", peer |-> curve25519,
                ret |-> GetOlmSessions(olmSessionsDb, curve25519)]
    /\ OlmUnchanged

OlmNext ==
    \E curve25519 \in Peers :
        \/ \E session \in OlmSessions : saveOlmSession(curve25519, session)
        \/ \E id \in OlmSessionIds : getOlmSession(curve25519, id)
        \/ getOlmSessions(curve25519)

SpecOlm == Init /\ [][OlmNext]_vars

\* ---------------------------------------------------------------- room info

\* The stored RoomInfo of a room with the member count that both queries
\* add to it.
WithMemberCount(info, members, room_id) ==
    [name |-> info.name, topic |-> info.topic, avatar_url |-> info.avatar_url,
     is_invite |-> info.is_invite,
     member_count |-> Cardinality(DOMAIN MembersOf(members, room_id))]

\* getRoomInfo(rooms): a room is looked up in the rooms table and, only when
\* it is not there, in the invites table.
RECURSIVE GetRoomInfo(_, _, _)
GetRoomInfo(store, rooms, room_info) ==
    IF rooms = << >> THEN room_info
    ELSE LET room == Head(rooms)
         IN  GetRoomInfo(store, Tail(rooms),
                 IF room \in DOMAIN room_info THEN room_info
                 ELSE IF room \in DOMAIN store.roomsDb
                 THEN Put(room_info, room,
                          WithMemberCount(store.roomsDb[room], store.membersDb, room))
                 ELSE IF room \in DOMAIN store.invitesDb
                 THEN Put(room_info, room,
                          WithMemberCount(store.invitesDb[room], store.inviteMembersDb,
                                          room))
                 ELSE room_info)

\* The loop over a table in roomInfo: QMap::insert replaces the value of a
\* key that the map already has.
RECURSIVE InsertAll(_, _, _, _)
InsertAll(result, table, members, order) ==
    IF order = << >> THEN result
    ELSE InsertAll(Put(result, Head(order),
                       WithMemberCount(table[Head(order)], members, Head(order))),
                   table, members, Tail(order))

\* roomInfo(withInvites): the joined rooms are inserted, then the invites.
RoomInfoMap(store, withInvites) ==
    LET joined == InsertAll(EmptyTable, store.roomsDb, store.membersDb,
                            RoomOrder(DOMAIN store.roomsDb))
    IN  IF withInvites
        THEN InsertAll(joined, store.invitesDb, store.inviteMembersDb,
                       RoomOrder(DOMAIN store.invitesDb))
        ELSE joined

getRoomInfo(rooms) ==
    /\ last' = [op |-> "getRoomInfo", rooms |-> rooms,
                ret |-> GetRoomInfo(Store, rooms, EmptyTable)]
    /\ UNCHANGED <<sessionVars, nonSessionVars>>

roomInfo(withInvites) ==
    /\ last' = [op |-> "roomInfo", withInvites |-> withInvites,
                ret |-> RoomInfoMap(Store, withInvites)]
    /\ UNCHANGED <<sessionVars, nonSessionVars>>

\* Room lists asked of getRoomInfo.
RoomLists == {<<RoomIds[1]>>, <<RoomIds[2], RoomIds[1]>>, RoomIds}

RoomInfoNext ==
    \/ \E res \in SyncPayloads : saveState(res, Len(SaveStateSteps(res)), NoError)
    \/ \E rooms \in RoomLists : getRoomInfo(rooms)
    \/ \E withInvites \in BOOLEAN : roomInfo(withInvites)

SpecRoomInfo == Init /\ [][RoomInfoNext]_vars

\* ----------------------------------------------------------------- claims

\* C1: when the stored receipt set of an event holds {u: t1} and
\* updateReadReceipt is applied with {u: t2}, t2 > t1, the stored set
\* afterwards maps u to t2.
C1_DuplicateUserTakesNewTimestamp ==
    [][\A room \in ReceiptRooms :
          \A receipts \in Receipts(room) :
              updateReadReceipt(room, receipts) =>
                  \A e \in DOMAIN receipts :
                      \A u \in DOMAIN receipts[e] :
                          LET key == ReadReceiptKey(e, room)
                          IN  ( /\ key \in DOMAIN readReceiptsDb
                                /\ u \in DOMAIN readReceiptsDb[key]
                                /\ receipts[e][u] > readReceiptsDb[key][u] )
                              => readReceiptsDb'[key][u] = receipts[e][u]]_vars

\* C2: once every concurrent updateOutboundMegolmSession and
\* saveOutboundMegolmSession call on a room has returned, the message index
\* persisted for the room equals the message index in the mirror.
C2_PersistedIndexEqualsMirror ==
    (AllIdle /\ ~crashed) =>
        \A room \in (DOMAIN outboundMegolmSessionDb) \cap
                     (DOMAIN group_outbound_session_data) :
            outboundMegolmSessionDb[room].data.message_index =
                group_outbound_session_data[room].message_index

\* C3: every step of an updateOutboundMegolmSession call on a room whose
\* outbound session was neither saved nor restored leaves the outbound table
\* and both outbound mirror maps unchanged.
C3_UpdateWithoutSessionIsNoOp ==
    [][\A t \in Threads, room \in SessionRooms :
          ( /\ room \notin known_outbound
            /\ \/ \E i \in 0 .. MaxMessageIndex :
                     updateOutboundMegolmSession_check(t, room, i)
               \/ thread[t].room = room /\ updateOutboundMegolmSession_lock(t)
               \/ thread[t].room = room /\ updateOutboundMegolmSession_put(t) )
          => UNCHANGED <<outboundMegolmSessionDb, group_outbound_session_data,
                         group_outbound_sessions>>]_vars

\* C4: in a sequence of calls, getInboundMegolmSession returns the session of
\* the last saveInboundMegolmSession for the index, and
\* inboundMegolmSessionExists returns true, both in the run that saved it and
\* in a later run after restoreSessions.
C4_InboundRoundTrip ==
    /\ (last.op = "getInboundMegolmSession" /\ last.key \in DOMAIN known_inbound)
          => last.ret = saved_inbound[last.key]
    /\ (last.op = "inboundMegolmSessionExists" /\ last.key \in DOMAIN known_inbound)
          => last.found

\* A restarted process that ran restoreSessions returns a session saved by
\* the run before it.
C4_RestoredSessionReturned ==
    /\ last.op = "getInboundMegolmSession"
    /\ boot = "restored"
    /\ last.key \in DOMAIN known_inbound
    /\ known_inbound[last.key] = "restored"
    /\ last.ret \in Sessions

\* C5: once every concurrent saveInboundMegolmSession call has returned, the
\* session the mirror holds for a key is the session persisted under that key.
C5_InboundMirrorIsPersisted ==
    AllIdle =>
        \A key \in DOMAIN group_inbound_sessions :
            group_inbound_sessions[key] # Null =>
                /\ key \in DOMAIN inboundMegolmSessionDb
                /\ inboundMegolmSessionDb[key] =
                       Pickle(group_inbound_sessions[key], SECRET)

\* A persisted outbound entry that parses, holds both members and unpickles.
WellFormedOutbound(obj) ==
    obj.json /\ obj.has_data /\ obj.has_session /\ Unpickle(obj.session, SECRET).ok

\* C6: restoreSessions does not abort, and after it every persisted inbound
\* and outbound entry that is well-formed is in the mirrors, whatever other
\* entries are malformed.
C6_RestoreSkipsOnlyMalformed ==
    last.op = "restoreSessions" =>
        /\ ~last.threw
        /\ \A key \in DOMAIN inboundMegolmSessionDb :
              Unpickle(inboundMegolmSessionDb[key], SECRET).ok =>
                  /\ key \in DOMAIN group_inbound_sessions
                  /\ group_inbound_sessions[key] =
                         Unpickle(inboundMegolmSessionDb[key], SECRET).session
        /\ \A room \in DOMAIN outboundMegolmSessionDb :
              WellFormedOutbound(outboundMegolmSessionDb[room]) =>
                  /\ OutboundExists(room)
                  /\ group_outbound_session_data[room] =
                         outboundMegolmSessionDb[room].data
                  /\ group_outbound_sessions[room] =
                         Unpickle(outboundMegolmSessionDb[room].session, SECRET).session

\* C7: for a room that stores power levels, hasEnoughPowerLevel returns true
\* iff the user's level is greater than or equal to the required level of
\* every one of the given event types.
C7_EnoughForEveryEventType ==
    ( /\ last.op = "hasEnoughPowerLevel"
      /\ last.eventTypes # << >>
      /\ RoomPowerLevels \in DOMAIN StatesOf(statesDb, last.room) )
    => LET content == statesDb[last.room][RoomPowerLevels]
       IN  last.ret <=>
               \A i \in 1 .. Len(last.eventTypes) :
                   user_level(content, last.user) >=
                       state_level(content, last.eventTypes[i])

\* C8: hasEnoughPowerLevel returns true for every user and every list of
\* event types when the room stores no m.room.power_levels event.
C8_NoPowerLevelsNoRestriction ==
    ( /\ last.op = "hasEnoughPowerLevel"
      /\ RoomPowerLevels \notin DOMAIN StatesOf(statesDb, last.room) )
    => last.ret

\* C9: after saveTimelineMessages, the room's message table holds an entry
\* for every event of the batch that is neither a state event nor a redaction.
C9_NoTimelineEventLost ==
    last.op = "saveTimelineMessages" =>
        \A i \in 1 .. Len(last.events) :
            (~isStateEvent(last.events[i]) /\ ~isRedaction(last.events[i])) =>
                \E key \in DOMAIN MessagesOf(messagesDb, last.room) :
                    messagesDb[last.room][key].event = last.events[i]

\* C10: deleteOldMessages leaves at most MAX_RESTORED_MESSAGES entries in
\* every joined room that held more than 3 * MAX_RESTORED_MESSAGES, and leaves
\* every room that held 3 * MAX_RESTORED_MESSAGES or fewer as it was.
C10_RetentionBound ==
    [][last'.op = "deleteOldMessages" =>
          \A room \in TimelineRooms :
              LET before == MessagesOf(messagesDb, room)
                  after  == MessagesOf(messagesDb', room)
              IN  /\ ( /\ room \in DOMAIN roomsDb
                       /\ Cardinality(DOMAIN before) > 3 * MAX_RESTORED_MESSAGES )
                     => Cardinality(DOMAIN after) <= MAX_RESTORED_MESSAGES
                  /\ Cardinality(DOMAIN before) <= 3 * MAX_RESTORED_MESSAGES
                     => after = before]_vars

\* deleteOldMessages has pruned one joined room and left the other, which
\* holds exactly 3 * MAX_RESTORED_MESSAGES entries, as it was.
C10_PrunedAndUntouched ==
    /\ last.op = "deleteOldMessages"
    /\ \E room \in last.pruned :
          Cardinality(DOMAIN MessagesOf(messagesDb, room)) = MAX_RESTORED_MESSAGES
    /\ \E room \in (DOMAIN roomsDb) \ last.pruned :
          Cardinality(DOMAIN MessagesOf(messagesDb, room)) = 3 * MAX_RESTORED_MESSAGES

WholeEntries(db) ==
    {key \in DOMAIN db : ~ParseFails(db[key]) /\ ~LacksEventOrToken(db[key])}

C13_UnparsableEntrySkipped ==
    last.op = "getTimelineMessages" =>
        LET db == MessagesOf(messagesDb, last.room)
            whole == WholeEntries(db)
        IN  /\ ~last.threw
            /\ Cardinality(whole) <= MAX_RESTORED_MESSAGES =>
                   {last.events[i] : i \in 1 .. Len(last.events)} =
                       {db[key].event : key \in whole}

\* C14: getRoomName returns the name event's name if non-empty; else the
\* canonical alias if non-empty; else with one member its display name; with
\* two members the display name of one that is not the local user; with more
\* than two "<first non-local member among the first 3> and N others", N the
\* member count; otherwise "Empty Room".
C14_RoomNameFallback ==
    last.op = "getRoomName" =>
        LET states == StatesOf(statesDb, last.room)
            members == MembersOf(membersDb, last.room)
            ids == DOMAIN members
            total == Cardinality(ids)
            first3 == {u \in ids : Cardinality({v \in ids : UserLess(v, u)}) < 3}
            others == first3 \ {LocalUser}
            first_other == CHOOSE u \in others : \A v \in others \ {u} : UserLess(u, v)
        IN  IF RoomName \in DOMAIN states /\ states[RoomName].name # << >>
            THEN last.ret = states[RoomName].name
            ELSE IF /\ RoomCanonicalAlias \in DOMAIN states
                    /\ states[RoomCanonicalAlias].alias # << >>
            THEN last.ret = states[RoomCanonicalAlias].alias
            ELSE IF total = 1 THEN \E u \in ids : last.ret = members[u].name
            ELSE IF total = 2 THEN \E u \in ids \ {LocalUser} : last.ret = members[u].name
            ELSE IF total > 2
            THEN last.ret = members[first_other].name \o <<" and ">>
                                \o Number(total) \o <<" others">>
            ELSE last.ret = <<"Empty Room">>

\* The pending keys of a room, and whether a user other than the local one
\* has a stored receipt for a key.
PendingOf(db, room_id) == {key \in DOMAIN db : key.room_id = room_id}

ReadByOther(db, key) ==
    key \in DOMAIN db /\ \E u \in DOMAIN db[key] : u # LocalUser

\* C18: notifyForReadReceipts(R) removes from the pending set and emits in
\* newReadReceipts exactly the pending events of R that have a stored receipt
\* of a user other than the local user; the other pending events of R and
\* the pending events of other rooms stay, and nothing else is emitted.
C18_NotifiesExactlyReadByOther ==
    [][last'.op = "notifyForReadReceipts" =>
          LET read == {key \in PendingOf(pendingReceiptsDb, last'.room) :
                          ReadByOther(readReceiptsDb, key)}
          IN  /\ pendingReceiptsDb' = [key \in DOMAIN pendingReceiptsDb \ read |->
                                          pendingReceiptsDb[key]]
              /\ last'.emitted =
                     IF read = {} THEN {}
                     ELSE {NewReadReceipts(last'.room, {key.event_id : key \in read})}]_vars

\* A pass emitted an event of a room while another event of the room, read
\* by the local user only, and an event of another room stayed pending.
C18_EmittedAndKeptPending ==
    /\ last.op = "notifyForReadReceipts"
    /\ last.emitted # {}
    /\ \E key \in PendingOf(pendingReceiptsDb, last.room) :
           key \in DOMAIN readReceiptsDb /\ DOMAIN readReceiptsDb[key] = {LocalUser}
    /\ \E key \in DOMAIN pendingReceiptsDb :
           key.room_id # last.room /\ ReadByOther(readReceiptsDb, key)

\* C20: updateReadReceipt is idempotent: from every store, applying a
\* receipts map of a room twice gives the store that applying it once gives.
C20_UpdateReadReceiptIdempotent ==
    \A room \in ReceiptRooms :
        \A receipts \in Receipts(room) :
            LET once == UpdateReadReceipt(readReceiptsDb, room, receipts)
            IN  UpdateReadReceipt(once, room, receipts) = once

\* An update was applied, and applying some map again, with another timestamp
\* for a user who has a receipt, leaves the store as it is.
C20_AppliedAgain ==
    /\ last.op = "updateReadReceipt"
    /\ \E receipts \in Receipts(last.room) :
           /\ UpdateReadReceipt(readReceiptsDb, last.room, receipts) = readReceiptsDb
           /\ \E e \in DOMAIN receipts :
                  \E u \in DOMAIN receipts[e] :
                      receipts[e][u] # readReceiptsDb[ReadReceiptKey(e, last.room)][u]

C16_FailedSaveStateWritesNothing ==
    [][last'.op = "saveState" /\ last'.failed =>
          /\ Store' = Store
          /\ NextBatchToken(syncStateDb') = NextBatchToken(syncStateDb)]_vars

\* The part of C16 about the failures that leave saveState by an exception.
ThrowingSaveStateWritesNothing ==
    [][last'.op = "saveState" /\ last'.threw =>
          /\ Store' = Store
          /\ NextBatchToken(syncStateDb') = NextBatchToken(syncStateDb)]_vars

\* C17: after saveState committed a payload, no room of the joined set of the
\* payload has an invite record.
C17_NoInviteForJoinedRoom ==
    last.op = "saveState" /\ ~last.threw =>
        \A R \in DOMAIN last.res.rooms.join : R \notin DOMAIN invitesDb

\* C19: when (E, R) is pending and saveState processes a payload whose joined
\* room R carries a receipt for E of a user other than the local user, then
\* when saveState returns (E, R) is not pending and a newReadReceipts signal
\* of R with E was emitted.
C19_PendingReceiptConfirmedBySync ==
    [][last'.op = "saveState" /\ ~last'.failed =>
          \A R \in DOMAIN last'.res.rooms.join :
              \A E \in DOMAIN last'.res.rooms.join[R].ephemeral.receipts :
                  (/\ ReadReceiptKey(E, R) \in DOMAIN pendingReceiptsDb
                   /\ \E u \in DOMAIN last'.res.rooms.join[R].ephemeral.receipts[E] :
                          u # LocalUser)
                  => /\ ReadReceiptKey(E, R) \notin DOMAIN pendingReceiptsDb'
                     /\ \E signal \in last'.emitted :
                            signal.room = R /\ E \in signal.events]_vars

\* A saveState whose payload had a receipt of the other user for an event
\* emitted it, another event of the room staying pending.
C19_EmittedOnSync ==
    /\ last.op = "saveState"
    /\ \E signal \in last.emitted :
           /\ signal.room \in DOMAIN last.res.rooms.join
           /\ \E E \in signal.events :
                  /\ E \in DOMAIN last.res.rooms.join[signal.room].ephemeral.receipts
                  /\ ReadReceiptKey(E, signal.room) \notin DOMAIN pendingReceiptsDb
           /\ PendingOf(pendingReceiptsDb, signal.room) # {}

\* C21: a stored receipt set never shrinks: after any updateReadReceipt or
\* saveState every (event, room) key stored before is still stored, and the
\* users having a receipt under it include those who had one before.
C21_ReceiptSetNeverShrinks ==
    [][last'.op \in {"updateReadReceipt", "saveState"} =>
          \A key \in DOMAIN readReceiptsDb :
              /\ key \in DOMAIN readReceiptsDb'
              /\ DOMAIN readReceiptsDb[key] \subseteq DOMAIN readReceiptsDb'[key]]_vars

\* A saveState carried a receipt for an event that had one of another user,
\* and both users have a receipt afterwards.
C21_MergedIntoStoredSet ==
    /\ last.op = "saveState"
    /\ \E R \in DOMAIN last.res.rooms.join :
           \E E \in DOMAIN last.res.rooms.join[R].ephemeral.receipts :
               /\ ReadReceiptKey(E, R) \in DOMAIN readReceiptsDb
               /\ DOMAIN readReceiptsDb[ReadReceiptKey(E, R)] = Users

\* C22: outboundMegolmSessionExists(room) returns true only if the mirror
\* holds a session object and the metadata of the room, after any sequence
\* of saves, updates and restores, also when a restore read an entry whose
\* metadata parses and whose session is missing.
C22_ExistsOnlyWithSessionAndData ==
    last.op = "outboundMegolmSessionExists" /\ last.found =>
        /\ last.room \in DOMAIN group_outbound_sessions
        /\ group_outbound_sessions[last.room] \in Sessions
        /\ last.room \in DOMAIN group_outbound_session_data

\* The check returned true for a room after a restore that loaded the
\* metadata of another room and not its session.
C22_FoundBesideDataWithoutSession ==
    /\ last.op = "outboundMegolmSessionExists"
    /\ last.found
    /\ boot = "restored"
    /\ \E room \in DOMAIN group_outbound_session_data :
           /\ room \notin DOMAIN group_outbound_sessions
           /\ ~outboundMegolmSessionDb[room].has_session

C24_NoMutexInsideTransaction ==
    \A t \in Threads :
        /\ (\E m \in Mutexes : mutex[m] = t) => call[t].txn = "none"
        /\ WaitsFor(t) # 0 => WaitsFor(t) # t /\ WaitsFor(WaitsFor(t)) = 0

\* One thread is inside a mirror map, holding its mutex, while another thread
\* has its write transaction open.
C24_MutexHeldBesideOpenTransaction ==
    \E t, u \in Threads :
        /\ t # u
        /\ \E m \in Mutexes : mutex[m] = t
        /\ call[t].touching # ""
        /\ call[u].txn = "rw"
        /\ write_txn = u

\* C25: the handle that getInboundMegolmSession or getOutboundMegolmSession
\* returned refers, when the caller uses it, to the session object that the
\* mirror still owns.
C25_HandleRefersToLiveSession ==
    \A t \in Threads :
        /\ call[t].op \in {"getInboundMegolmSession", "getOutboundMegolmSession"}
        /\ Current(t).k = "use"
        /\ call[t].handle # 0
        => owned[call[t].handle_of] = call[t].handle

\* C26: an operation that only reads the store has, while its transaction
\* is open, a read-only transaction.
C26_ReadersUseReadOnlyTransactions ==
    \A t \in Threads :
        OnlyReads(call[t].op) /\ call[t].txn # "none" => call[t].txn = "ro"

\* C27: isFormatValid returns true when no marker is stored and when the
\* stored marker is the current version, false when the stored marker
\* differs from it; after setCurrentFormat the format is valid whatever was
\* stored before.
C27_FormatValidity ==
    [][/\ last'.op = "isFormatValid" =>
             last'.ret = (\/ CACHE_FORMAT_VERSION_KEY \notin DOMAIN syncStateDb
                          \/ syncStateDb[CACHE_FORMAT_VERSION_KEY]
                                = CURRENT_CACHE_FORMAT_VERSION)
       /\ last'.op = "setCurrentFormat" => IsFormatValid(syncStateDb')]_vars

\* setCurrentFormat has replaced the marker of an older format.
C27_OldMarkerReplaced ==
    /\ last.op = "setCurrentFormat"
    /\ last.ret = "2018.05.11"
    /\ IsFormatValid(syncStateDb)

\* C28: once deleteData has reset a store whose marker is mismatched, the
\* store reports a valid format and holds nothing written before: no token,
\* no stored session and no session in the mirror.
C28_ResetStoreIsValidAndEmpty ==
    [][last'.op = "deleteData" /\ ~IsFormatValid(syncStateDb) =>
          /\ IsFormatValid(syncStateDb')
          /\ ~IsInitialized(syncStateDb')
          /\ DOMAIN inboundMegolmSessionDb' = {}
          /\ DOMAIN group_inbound_sessions' = {}]_vars

\* C29: when the first open fails with MDB_VERSION_MISMATCH or MDB_INVALID,
\* setup removes every file of the directory and opens once more, unless a
\* removal fails; a failed directory creation, any other open error, a failed
\* removal and a failed second open end setup with an exception and the
\* environment closed, after at most two opens.
C29_SetupResetsOnceOrFails ==
    [][last'.op = "setup" =>
          /\ last'.opens <= 2
          /\ last'.threw # "" => env_' = "none"
          /\ last'.before = "absent" /\ ~last'.mkpath_ok => last'.opens = 0
          /\ last'.first \in {"MDB_VERSION_MISMATCH", "MDB_INVALID"} =>
                IF last'.threw = "Unable to delete file"
                THEN last'.opens = 1
                ELSE last'.opens = 2 /\ last'.removed = Files(last'.before)
          /\ last'.first \notin {"MDB_VERSION_MISMATCH", "MDB_INVALID", "MDB_SUCCESS", ""}
                => last'.threw # "" /\ last'.opens = 1]_vars

\* C30: getRoomAvatarUrl returns the url of the stored m.room.avatar event
\* when there is one; without one it returns the empty url for a room of
\* more than two members, and otherwise the avatar url of the member that is
\* not the local user.
C30_RoomAvatarFallback ==
    last.op = "getRoomAvatarUrl" =>
        LET states == StatesOf(statesDb, last.room)
            members == MembersOf(membersDb, last.room)
            others == DOMAIN members \ {LocalUser}
        IN  IF RoomAvatar \in DOMAIN states THEN last.ret = states[RoomAvatar].url
            ELSE IF Cardinality(DOMAIN members) > 2 THEN last.ret = << >>
            ELSE \A u \in others : others = {u} => last.ret = members[u].avatar_url

\* A room of the local user and one other member, without an avatar event,
\* got the other member's avatar.
C30_AvatarOfOtherMember ==
    /\ last.op = "getRoomAvatarUrl"
    /\ RoomAvatar \notin DOMAIN StatesOf(statesDb, last.room)
    /\ DOMAIN MembersOf(membersDb, last.room) = {LocalUser, "@a:x"}
    /\ MembersOf(membersDb, last.room)[LocalUser].avatar_url = <<"mxc://x/2">>
    /\ last.ret = <<"mxc://x/1">>

\* C31: searchRooms returns min(max_items, number of stored rooms) results;
\* they are in ascending order of distance, rooms of equal distance in table
\* order; no room left out has a smaller distance than a room returned; and
\* max_items = 0 returns the empty sequence.
C31_SearchReturnsLowestInOrder ==
    last.op = "searchRooms" =>
        LET ret == last.ret
            Dist(room) == Score(last.query, roomsDb[room])
        IN  /\ Len(ret) = Min(last.max_items, Cardinality(DOMAIN roomsDb))
            /\ last.max_items = 0 => ret = << >>
            /\ \A i \in DOMAIN ret : ret[i].room_id \in DOMAIN roomsDb
                                      /\ ret[i].info = roomsDb[ret[i].room_id]
            /\ \A i, j \in DOMAIN ret :
                   i < j => \/ Dist(ret[i].room_id) < Dist(ret[j].room_id)
                            \/ /\ Dist(ret[i].room_id) = Dist(ret[j].room_id)
                               /\ RoomLess(ret[i].room_id, ret[j].room_id)
            /\ \A room \in DOMAIN roomsDb :
                   (\A i \in DOMAIN ret : ret[i].room_id # room) =>
                       \A i \in DOMAIN ret :
                           \/ Dist(ret[i].room_id) < Dist(room)
                           \/ /\ Dist(ret[i].room_id) = Dist(room)
                              /\ RoomLess(ret[i].room_id, room)

\* Two of three rooms are returned; they have the same distance and a room
\* of that distance, later in the table, is left out.
C31_TiesCappedInTableOrder ==
    /\ last.op = "searchRooms"
    /\ last.max_items = 2
    /\ Len(last.ret) = 2
    /\ Cardinality(DOMAIN roomsDb) = 3
    /\ \A room \in DOMAIN roomsDb : Score(last.query, roomsDb[room]) = 1

\* C32: when the query is the name of a stored room, in any letter case,
\* and max_items >= 1, that room has distance 0, is returned, and comes
\* before every returned room of greater distance.
C32_ExactNameRanksFirst ==
    last.op = "searchRooms" /\ last.max_items >= 1 =>
        \A room \in DOMAIN roomsDb :
            ToLower(last.query) = ToLower(roomsDb[room].name) =>
                /\ Score(last.query, roomsDb[room]) = 0
                /\ \E i \in DOMAIN last.ret :
                       /\ Score(last.query, last.ret[i].info) = 0
                       /\ \A j \in DOMAIN last.ret :
                              Score(last.query, last.ret[j].info) > 0 => i < j

\* C33: after saveOlmSession(peer, s) the peer's list holds s's session id
\* and the lookup of that id returns a session; the list and the lookups of
\* every other peer are as before; a session id gets into a peer's table
\* only by a save for that peer, and getOlmSession returns none for an id
\* that is not in it.
C33_PairwiseSessionsPerPeer ==
    [][/\ last'.op = "saveOlmSession" =>
             /\ session_id(last'.session) \in GetOlmSessions(olmSessionsDb', last'.peer)
             /\ GetOlmSession(olmSessionsDb', last'.peer, session_id(last'.session)).found
             /\ GetOlmSession(olmSessionsDb', last'.peer, session_id(last'.session)).session
                    \in OlmSessions
             /\ \A peer \in Peers \ {last'.peer} :
                    /\ GetOlmSessions(olmSessionsDb', peer) = GetOlmSessions(olmSessionsDb, peer)
                    /\ \A id \in OlmSessionIds :
                           GetOlmSession(olmSessionsDb', peer, id)
                               = GetOlmSession(olmSessionsDb, peer, id)
       /\ \A peer \in Peers, id \in OlmSessionIds :
             /\ id \notin GetOlmSessions(olmSessionsDb, peer)
             /\ id \in GetOlmSessions(olmSessionsDb', peer)
             => /\ last'.op = "saveOlmSession"
                /\ last'.peer = peer
                /\ session_id(last'.session) = id
       /\ last'.op = "getOlmSession" =>
             (last'.ret.found <=> last'.id \in GetOlmSessions(olmSessionsDb, last'.peer))]_vars

\* A lookup for a peer returned none for a session id that another peer
\* has a session of.
C33_NoneForIdOfOtherPeer ==
    /\ last.op = "getOlmSession"
    /\ ~last.ret.found
    /\ \E peer \in Peers \ {last.peer} : last.id \in GetOlmSessions(olmSessionsDb, peer)

\* C34: getOutboundMegolmSession changes neither outbound mirror map, so
\* outboundMegolmSessionExists answers for the room as it did before the call;
\* and the put of an updateOutboundMegolmSession on a room whose session was
\* neither saved nor restored never runs.
C34_GetOutboundIsPureLookup ==
    [][/\ \A room \in SessionRooms :
             last'.op = "getOutboundMegolmSession" /\ last'.room = room =>
                 /\ UNCHANGED <<group_outbound_sessions, group_outbound_session_data>>
                 /\ (room \in DOMAIN group_outbound_sessions'
                        /\ room \in DOMAIN group_outbound_session_data')
                    <=> OutboundExists(room)
       /\ \A room \in SessionRooms :
             room \notin known_outbound /\ thread[1].room = room
                 => ~updateOutboundMegolmSession_put(1)]_vars

\* C35: getInboundMegolmSession leaves the inbound mirror unchanged, and
\* inboundMegolmSessionExists returns true only for an index that has a
\* persisted session.
C35_GetInboundIsPureLookup ==
    [][/\ last'.op = "getInboundMegolmSession" => UNCHANGED group_inbound_sessions
       /\ last'.op = "inboundMegolmSessionExists" /\ last'.found
             => last'.key \in DOMAIN inboundMegolmSessionDb]_vars

\* C36: in every state reached by saveState calls no room id has a record in
\* the joined-rooms table and a record in the invites table.
C36_NeverJoinedAndInvited ==
    \A R \in Pieces(RoomIds) : ~(R \in DOMAIN roomsDb /\ R \in DOMAIN invitesDb)

\* C37: for every room that getRoomInfo returned, roomInfo(withInvites =
\* true) on the same store has the room with the same is_invite and the same
\* name; and every room of roomInfo(true) that was asked for is returned.
C37_RoomInfoAgrees ==
    last.op = "getRoomInfo" =>
        \A all \in {RoomInfoMap(Store, TRUE)} :
            /\ DOMAIN last.ret = DOMAIN all \cap Pieces(last.rooms)
            /\ \A R \in DOMAIN last.ret :
                   /\ last.ret[R].is_invite = all[R].is_invite
                   /\ last.ret[R].name = all[R].name

\* C38: deleteOldMessages leaves what getTimelineMessages returns for every
\* room as it was: the same events in the same order and the same prev_batch
\* (every entry of the tables was written by saveTimelineMessages).
C38_PruningKeepsRestoredHistory ==
    [][last'.op = "deleteOldMessages" =>
          \A room \in TimelineRooms :
              GetTimelineMessages(MessagesOf(messagesDb', room)) =
                  GetTimelineMessages(MessagesOf(messagesDb, room))]_vars

\* A room was pruned and its restored history is MAX_RESTORED_MESSAGES events.
C38_PrunedRoomRestored ==
    /\ last.op = "deleteOldMessages"
    /\ \E room \in last.pruned :
           /\ Cardinality(DOMAIN MessagesOf(messagesDb, room)) = MAX_RESTORED_MESSAGES
           /\ \E timeline \in {GetTimelineMessages(MessagesOf(messagesDb, room))} :
                  ~timeline.threw /\ Len(timeline.events) = MAX_RESTORED_MESSAGES

\* C39: a newReadReceipts emission of saveState or notifyForReadReceipts
\* carries no event of a room that an emission has carried since the last
\* addPendingReceipt of that event and room.
C39_PendingSignalledOnce ==
    [][last'.op \in {"saveState", "notifyForReadReceipts"} =>
          SignalledBy(last'.emitted) \cap signalled = {}]_vars

\* An event was signalled, and a later call that finds its receipts in the
\* store emits nothing for it.
C39_SignalledAndQuietAfterwards ==
    /\ last.op \in {"saveState", "notifyForReadReceipts"}
    /\ last.emitted = {}
    /\ \E key \in signalled :
           /\ key \notin DOMAIN pendingReceiptsDb
           /\ FilterReadEvents(readReceiptsDb, key.room_id, {key.event_id}, LocalUser) # {}
           /\ last.op = "notifyForReadReceipts" => last.room = key.room_id
           /\ last.op = "saveState" => key.room_id \in DOMAIN last.res.rooms.join

\* C40: when the room stores a power-levels event, hasEnoughPowerLevel
\* returns the comparison of the integers that the content holds: the user's
\* level against the least of UINT16_MAX and the levels of the event types.
C40_ComparesUntruncatedLevels ==
    (/\ last.op = "hasEnoughPowerLevel"
     /\ RoomPowerLevels \in DOMAIN StatesOf(statesDb, last.room)) =>
        LET content == StatesOf(statesDb, last.room)[RoomPowerLevels]
            required == {UINT16_MAX} \cup
                            {state_level(content, last.eventTypes[i]) :
                                i \in DOMAIN last.eventTypes}
            least == CHOOSE l \in required : \A m \in required : l <= m
        IN  last.ret = (user_level(content, last.user) >= least)
====
